---- MODULE Spec2Model ----
(***************************************************************************)
(* CodexMem worker: the durable queue (pending_messages + the dedupe       *)
(* ledger processed_message_dedupe), the session rows it hangs off, and    *)
(* the per-session drain loop processSessionQueue with the HTTP handlers   *)
(* that start it.                                                          *)
(*                                                                         *)
(* The worker is one single-threaded JavaScript process.  A handler runs   *)
(* without interruption up to its next await on real I/O (the agent's chat *)
(* call, the vector indexing call); every action below is one such         *)
(* uninterrupted run.  The database outlives the process; everything else  *)
(* (the open handlers, activeSessions) dies with it.                       *)
(***************************************************************************)
EXTENDS Integers, Sequences, FiniteSets, Bags, TLC

\* ---------------------------------------------------------------- bounds
MaxItems == 2       \* rows ever inserted into pending_messages
MaxDrains == 2      \* handler invocations open at the same time
MaxAge == 2         \* ages of a claim are told apart up to this many ms
MaxPrompts == 1     \* stored prompts per session
MaxCrashes == 1     \* process crashes
MaxSessionPrompts == 3      \* rows of user_prompts in SpecSessions and SpecPrompts
MaxSessionItems == 1        \* rows ever inserted into pending_messages in SpecSessions
MaxDay == 2         \* days the clock runs
MaxSearchRows == 2  \* observations in SpecSearch
MaxSearchDay == 1   \* days the clock runs in SpecSearch
MaxSearches == 1    \* /api/search handlers open at the same time
TimelineDepth == 3  \* depth_before and depth_after of a timeline request
MaxRetentionRows == 2       \* observations and summaries in SpecRetention
MaxSweepRows == 2   \* observations in SpecSweepCrash
MaxWrite == 3       \* bytes the Codex CLI appends to the session file in one write
MaxStatements == 11 \* write statements of a retention run over three projects, less the last

\* ------------------------------------------------------ program constants
MAX_RETRY == 3
\* CODEXMEM_RETENTION_TTL_DAYS and CODEXMEM_RETENTION_SOFT_DELETE_DAYS, in days
\* (the code raises either to 1 at least)
DefaultTtlDays == 1
SoftDeleteDays == 1

\* ---------------------------------------------------------------- inputs
ContentSessions == {"s1"}
Kinds == {"observation", "summarize"}
ToolEvents == {[tool_name |-> "Read", tool_input |-> "a.ts", tool_response |-> "ok", cwd |-> "/tmp"]}
AssistantMessages == {"done"}
\* the tool events of SpecAgent
AgentToolEvents ==
    ToolEvents \cup {[tool_name |-> "Edit", tool_input |-> "a.ts", tool_response |-> "ok",
                      cwd |-> "/tmp"]}
\* the prompt of an init request: a visible one and one that is private throughout
Prompts == {<<"hello">>, <<"<private>", "secret", "</private>">>}
VisiblePrompts == {p \in Prompts : \A k \in DOMAIN p : p[k] \notin {"<private>", "</private>"}}
Projects == {"p"}
\* every project a row can carry: those of the requests and the "unknown" of a
\* session that an observation or summarize request created
AllProjects == {"p", "q", "unknown"}
RetentionProjects == {"p", "q"}          \* the projects SpecRetention writes to
PolicyProjects == {"p"}                  \* the projects that get a policy
\* every contentSessionId a request may carry: those of the hooks and that of
\* the manual session of a project ("manual-" + project)
AllContentSessions == ContentSessions \cup {"manual-p", "manual-q"}
StaleMsValues == {1}     \* CODEXMEM_STALE_PROCESSING_MS / staleMs of the request, in ms

NULL == -1   \* SQL NULL
\* the bodies of the policy requests: a field left out is <<>>, a field given
\* is <<value>>
PolicyBodies ==
    {[enabled |-> <<>>, pinned |-> <<TRUE>>, ttlDays |-> <<>>],
     [enabled |-> <<FALSE>>, pinned |-> <<>>, ttlDays |-> <<>>],
     [enabled |-> <<TRUE>>, pinned |-> <<FALSE>>, ttlDays |-> <<2>>]}
NoKey == <<>>

VARIABLES
    phase,                    \* "ready" (listening), "down" (crashed), "boot" (bootstrap recovery running)
    crashes,                  \* crashes so far
    sdk_sessions,             \* the rows of sdk_sessions, indexed by id
    user_prompts,             \* the rows of user_prompts, in insertion order
    pending_messages,         \* sequence indexed by the AUTOINCREMENT id
    processed_message_dedupe, \* set of <<session_db_id, message_type, dedupe_key>>
    activeSessions,           \* in-process set of session ids
    drains,                   \* bag of the handler invocations awaiting I/O inside their drain loop
    lastEnqueue,              \* what the enqueue call of the last step returned (NoEnqueue if none)
    returned,                 \* sessions whose processSessionQueue call returned during the last step
    reply,                    \* the body /api/sessions/init or /complete answered with in the last step (NoReply if none)
    lastPrivate,              \* contentSessionId -> the prompt of its latest init call was empty after cleaning
    maxIssued,                \* contentSessionId -> the highest prompt_number a stored prompt ever got (0: none)
    now,                      \* Date.now(), in days
    observations,             \* the rows of observations, indexed by id
    session_summaries,        \* the rows of session_summaries, indexed by id
    project_retention_policies, \* project -> its policy row (NoPolicy: no row)
    project_memory_activity,  \* project -> last_accessed_at_epoch (NULL: no row)
    searches,                 \* the /api/search handlers awaiting their vector sources
    lastTouched,              \* history: project -> the day an observation, summary or prompt of it was last written or returned by a read (NULL: never)
    file,                     \* the bytes of the Codex session file (.jsonl) so far
    offset,                   \* BridgeFileState.offset of that file
    handed                    \* history: the lines processFile has passed to processLine, in order

\* the memory tables and what reads them
memvars == <<now, observations, session_summaries, project_retention_policies,
             project_memory_activity, searches, lastTouched>>

\* the state of the Codex bridge process and the session file it follows
bridgevars == <<file, offset, handed>>

vars == <<phase, crashes, sdk_sessions, user_prompts, pending_messages,
          processed_message_dedupe, activeSessions, drains, lastEnqueue, returned,
          reply, lastPrivate, maxIssued, now, observations, session_summaries,
          project_retention_policies, project_memory_activity, searches, lastTouched,
          file, offset, handed>>

\* the state of the worker process and its database
workervars == <<phase, crashes, sdk_sessions, user_prompts, pending_messages,
                processed_message_dedupe, activeSessions, drains, lastEnqueue, returned,
                reply, lastPrivate, maxIssued, memvars>>

NoEnqueue == [called |-> FALSE]
NoReply == [route |-> "none"]

Min(S) == CHOOSE x \in S : \A y \in S : x <= y

\* sha256 over the JSON of the parts: modelled as an injective encoding of the parts
toStableHash(parts) == <<"h", parts>>

\* all orders in which a query without ORDER BY may list a set of ids
OrdersOf(S) == {sq \in [1..Cardinality(S) -> S] : \A x \in S : \E k \in 1..Cardinality(S) : sq[k] = x}

\* ---------------------------------------------------------------- the store
\* A row of pending_messages.  status = "deleted" stands for a row removed by
\* confirmProcessed (the id is never reused: AUTOINCREMENT).
\* The clock is kept per row: age is Date.now() - started_processing_at_epoch
\* of a claimed row (NULL: the column is NULL), 0 at the claim and growing as
\* time passes, so "started_processing_at_epoch < Date.now() - thresholdMs"
\* reads "age > thresholdMs".
\* The last four fields are history: results stored from this message,
\* markFailed calls since it was last (re)queued, whether a stale reset was
\* applied to it, and how often claimNextPending returned it since it last
\* became pending.
NewMessage(sid, kind, key) ==
    [session_db_id |-> sid, message_type |-> kind, dedupe_key |-> key,
     status |-> "pending", retry_count |-> 0, age |-> NULL,
     stored |-> 0, fails |-> 0, resets |-> 0, claims |-> 0]

RowExists(q, id) == id \in DOMAIN q /\ q[id].status # "deleted"

\* enqueue that answers a repeated key without looking the queued row up
enqueue_NoLookup(q, ledger, sid, kind, key) ==
    IF key # NoKey /\ <<sid, kind, key>> \in ledger
    THEN [pm |-> q, dedupe |-> ledger, id |-> 0, deduped |-> TRUE]
    ELSE [pm |-> Append(q, NewMessage(sid, kind, key)),
          dedupe |-> IF key = NoKey THEN ledger ELSE ledger \cup {<<sid, kind, key>>},
          id |-> Len(q) + 1, deduped |-> FALSE]

\* enqueue that recognises a repeat by the queued row instead of the ledger
enqueue_ByQueueRow(q, ledger, sid, kind, key) ==
    LET existing == {i \in DOMAIN q : /\ RowExists(q, i)
                                      /\ q[i].session_db_id = sid
                                      /\ q[i].message_type = kind
                                      /\ q[i].dedupe_key = key}
    IN  IF key # NoKey /\ existing # {}
        THEN [pm |-> q, dedupe |-> ledger, id |-> Min(existing), deduped |-> TRUE]
        ELSE [pm |-> Append(q, NewMessage(sid, kind, key)),
              dedupe |-> IF key = NoKey THEN ledger ELSE ledger \cup {<<sid, kind, key>>},
              id |-> Len(q) + 1, deduped |-> FALSE]

enqueue(q, ledger, sid, kind, key) ==
    IF key = NoKey
    THEN [pm |-> Append(q, NewMessage(sid, kind, key)), dedupe |-> ledger,
          id |-> Len(q) + 1, deduped |-> FALSE]
    ELSE IF <<sid, kind, key>> \in ledger
    THEN LET existing == {i \in DOMAIN q : /\ RowExists(q, i)
                                           /\ q[i].session_db_id = sid
                                           /\ q[i].message_type = kind
                                           /\ q[i].dedupe_key = key}
         IN  [pm |-> q, dedupe |-> ledger,
              id |-> IF existing = {} THEN 0 ELSE Min(existing), deduped |-> TRUE]
    ELSE [pm |-> Append(q, NewMessage(sid, kind, key)),
          dedupe |-> ledger \cup {<<sid, kind, key>>},
          id |-> Len(q) + 1, deduped |-> FALSE]

\* an enqueue whose statements are not wrapped in a transaction: the ledger
\* insert, already executed when the process dies, stays
enqueueInterrupted_NoTransaction(q, ledger, sid, kind, key) ==
    [pm |-> q,
     dedupe |-> IF key = NoKey THEN ledger ELSE ledger \cup {<<sid, kind, key>>}]

\* what the tables hold when the process dies inside enqueueObservation /
\* enqueueSummarize, after the INSERT OR IGNORE into the ledger and before the
\* INSERT into pending_messages: both sit in one db.transaction, which is
\* rolled back when it does not commit
enqueueInterrupted(q, ledger, sid, kind, key) ==
    [pm |-> q, dedupe |-> ledger]

\* claimNextPending that selects the oldest pending row but does not flip it
claimNextPending_NoFlip(q, sid) ==
    LET cand == {i \in DOMAIN q : q[i].session_db_id = sid /\ q[i].status = "pending"}
    IN  IF cand = {} THEN [pm |-> q, msg |-> 0]
        ELSE LET m == Min(cand)
             IN  [pm |-> [q EXCEPT ![m].age = 0,
                                   ![m].claims = @ + 1],
                  msg |-> m]

claimNextPending(q, sid) ==
    LET cand == {i \in DOMAIN q : q[i].session_db_id = sid /\ q[i].status = "pending"}
    IN  IF cand = {} THEN [pm |-> q, msg |-> 0]
        ELSE LET m == Min(cand)
             IN  [pm |-> [q EXCEPT ![m].status = "processing",
                                   ![m].age = 0,
                                   ![m].claims = @ + 1],
                  msg |-> m]

confirmProcessed(q, id) ==
    IF RowExists(q, id)
    THEN [q EXCEPT ![id].status = "deleted", ![id].retry_count = 0,
                   ![id].age = NULL]
    ELSE q

\* markFailed that gives up one failure early (retry_count + 1 < MAX_RETRY)
markFailed_OneEarly(q, id) ==
    IF ~RowExists(q, id) THEN q
    ELSE IF q[id].retry_count + 1 < MAX_RETRY
    THEN [q EXCEPT ![id].status = "pending", ![id].retry_count = @ + 1,
                   ![id].age = NULL,
                   ![id].fails = @ + 1, ![id].claims = 0]
    ELSE [q EXCEPT ![id].status = "failed", ![id].fails = @ + 1]

markFailed(q, id) ==
    IF ~RowExists(q, id) THEN q
    ELSE IF q[id].retry_count < MAX_RETRY
    THEN [q EXCEPT ![id].status = "pending", ![id].retry_count = @ + 1,
                   ![id].age = NULL,
                   ![id].fails = @ + 1, ![id].claims = 0]
    ELSE [q EXCEPT ![id].status = "failed", ![id].fails = @ + 1]

\* staleness that does not look at the status
IsStale_AnyStatus(row, thresholdMs) ==
    /\ row.status # "deleted"
    /\ row.age # NULL
    /\ row.age > thresholdMs

\* staleness that does not look at the claim time
IsStale_AnyAge(row, thresholdMs) ==
    row.status = "processing"

\* WHERE status = 'processing' AND started_processing_at_epoch < Date.now() - thresholdMs
IsStale(row, thresholdMs) ==
    /\ row.status = "processing"
    /\ row.age # NULL
    /\ row.age > thresholdMs

resetStaleProcessing(q, thresholdMs) ==
    [i \in DOMAIN q |->
        IF IsStale(q[i], thresholdMs)
        THEN [q[i] EXCEPT !.status = "pending", !.age = NULL,
                          !.resets = 1, !.claims = 0]
        ELSE q[i]]

\* sessionDbId = 0: the call without a session id
retryFailed(q, sessionDbId) ==
    [i \in DOMAIN q |->
        IF q[i].status = "failed" /\ (sessionDbId = 0 \/ q[i].session_db_id = sessionDbId)
        THEN [q[i] EXCEPT !.status = "pending", !.retry_count = 0,
                          !.age = NULL,
                          !.fails = 0, !.claims = 0]
        ELSE q[i]]

retryFailedChanges(q, sessionDbId) ==
    Cardinality({i \in DOMAIN q : q[i].status = "failed"
                                  /\ (sessionDbId = 0 \/ q[i].session_db_id = sessionDbId)})

\* a scan that finds no session
getSessionsWithPendingMessages_None(q) == {}

getSessionsWithPendingMessages(q) ==
    {q[i].session_db_id : i \in {j \in DOMAIN q : q[j].status \in {"pending", "processing"}}}

\* storeObservation / storeSummary for the message a drain holds: one more row
\* in observations / session_summaries made from that message
storeResult(q, id) == [q EXCEPT ![id].stored = @ + 1]

\* ------------------------------------------------------- the session rows
\* sdk_sessions is the sequence of its rows, indexed by the AUTOINCREMENT id
\* (rows are never deleted).  memory_session_id is <<prefix, id>> for
\* prefix + "-" + id, and NoMemorySessionId while the column is NULL.
NoMemorySessionId == <<>>
SessionIds == 1..Cardinality(ContentSessions)
\* the sessionDbId of a request body: 0 for none, an id of a session row, or an
\* integer that is no session's id (the requests of other sessions act on this
\* one's queue only through the calls such a request makes)
SessionDbIdInputs == 0..(Cardinality(ContentSessions) + 1)

\* SELECT id FROM sdk_sessions WHERE content_session_id = ?  (0: no row)
getSessionByContentSessionId(sess, cs) ==
    LET found == {i \in DOMAIN sess : sess[i].content_session_id = cs}
    IN  IF found = {} THEN 0 ELSE Min(found)

\* createSDKSession that inserts without looking for an existing row
createSDKSession_NoLookup(sess, cs, project) ==
    Append(sess, [content_session_id |-> cs, memory_session_id |-> NoMemorySessionId,
                  project |-> project])

\* an existing row keeps its project unless that is empty
createSDKSession(sess, cs, project) ==
    LET existing == getSessionByContentSessionId(sess, cs)
    IN  IF existing # 0
        THEN IF project # "" /\ sess[existing].project = ""
             THEN [sess EXCEPT ![existing].project = project] ELSE sess
        ELSE Append(sess, [content_session_id |-> cs, memory_session_id |-> NoMemorySessionId,
                           project |-> project])

\* INSERT ... ON CONFLICT(project) DO UPDATE: last_accessed_at_epoch of each of
\* the projects rises to atEpoch (an empty project name is left out)
\* history of the accesses: an observation, summary or prompt of each of the
\* projects was written or returned by a read at atEpoch
Accessed(last, projects, atEpoch) ==
    [p \in DOMAIN last |-> IF p \in projects THEN atEpoch ELSE last[p]]

touchProjectActivity(activity, projects, atEpoch) ==
    [p \in DOMAIN activity |->
        IF p \in projects /\ p # "" /\ (activity[p] = NULL \/ atEpoch > activity[p])
        THEN atEpoch ELSE activity[p]]

\* createSDKSession touches the activity of the project when it inserts the row
createSDKSessionActivity(activity, sess, cs, project, atEpoch) ==
    IF getSessionByContentSessionId(sess, cs) # 0 THEN activity
    ELSE touchProjectActivity(activity, {project}, atEpoch)

ensureMemorySessionIdRegistered(sess, sessionDbId, memorySessionId) ==
    [sess EXCEPT ![sessionDbId].memory_session_id = memorySessionId]

ensureSessionForProcessing(sess, cs) ==
    LET session == getSessionByContentSessionId(sess, cs)
    IN  IF session = 0
        THEN LET created == createSDKSession(sess, cs, "unknown")
                 sid == getSessionByContentSessionId(created, cs)
             IN  ensureMemorySessionIdRegistered(created, sid, <<"cmem", sid>>)
        ELSE IF sess[session].memory_session_id = NoMemorySessionId
        THEN ensureMemorySessionIdRegistered(sess, session, <<"cmem", session>>)
        ELSE sess

\* the content session id of the manual session of a project
ManualContentSession(project) ==
    CASE project = "p" -> "manual-p"
      [] project = "q" -> "manual-q"
      [] OTHER -> "manual-"

getOrCreateManualSession(sess, project) ==
    LET created == createSDKSession(sess, ManualContentSession(project), project)
        sessionId == getSessionByContentSessionId(created, ManualContentSession(project))
    IN  ensureMemorySessionIdRegistered(created, sessionId, <<"manual", sessionId>>)

\* ------------------------------------------------------- the prompt rows
\* user_prompts is the sequence of its rows, indexed by the AUTOINCREMENT id.
\* purged is TRUE for a row the hard delete of retention removed: what stays
\* of it is PurgedPrompt (its id is never reused).
\* A prompt is the sequence of its tokens; a tag is a token.
\* content.replace(/<open>[\s\S]*?<\/open>/g, ""): every stretch from an
\* opening tag to the first closing tag after it is removed
RECURSIVE stripTag(_, _, _)
stripTag(content, open, close) ==
    IF content = <<>> THEN <<>>
    ELSE LET ends == {k \in 2..Len(content) : content[k] = close}
         IN  IF Head(content) = open /\ ends # {}
             THEN stripTag(SubSeq(content, Min(ends) + 1, Len(content)), open, close)
             ELSE <<Head(content)>> \o stripTag(Tail(content), open, close)

stripTagsInternal(content) ==
    stripTag(stripTag(content, "<claude-mem-context>", "</claude-mem-context>"),
             "<private>", "</private>")

\* a cleaning that removes nothing
stripMemoryTagsFromPrompt_Identity(content) == content

stripMemoryTagsFromPrompt(content) == stripTagsInternal(content)

PurgedPrompt ==
    [content_session_id |-> "", prompt_number |-> 0, prompt_text |-> <<>>,
     created_at_epoch |-> 0, last_accessed_at_epoch |-> 0, deleted_at_epoch |-> NULL,
     purged |-> TRUE]

\* a count that leaves the soft-deleted rows out
getPromptNumberFromUserPrompts_LiveOnly(prompts, cs) ==
    Cardinality({i \in DOMAIN prompts : /\ ~prompts[i].purged
                                        /\ prompts[i].content_session_id = cs
                                        /\ prompts[i].deleted_at_epoch = NULL})

\* SELECT COUNT(*) FROM user_prompts WHERE content_session_id = ?
getPromptNumberFromUserPrompts(prompts, cs) ==
    Cardinality({i \in DOMAIN prompts : /\ ~prompts[i].purged
                                        /\ prompts[i].content_session_id = cs})

\* the prompt_text values a query for (session, number) LIMIT 1 can return
getUserPrompt(prompts, cs, promptNumber) ==
    {prompts[i].prompt_text : i \in {j \in DOMAIN prompts :
                                        /\ ~prompts[j].purged
                                        /\ prompts[j].content_session_id = cs
                                        /\ prompts[j].prompt_number = promptNumber}}

saveUserPrompt(prompts, cs, promptNumber, promptText, atEpoch) ==
    Append(prompts, [content_session_id |-> cs, prompt_number |-> promptNumber,
                     prompt_text |-> promptText, created_at_epoch |-> atEpoch,
                     last_accessed_at_epoch |-> atEpoch, deleted_at_epoch |-> NULL,
                     purged |-> FALSE])

\* ------------------------------------------------------- the memory rows
\* observations and session_summaries are the sequences of their rows, indexed
\* by the AUTOINCREMENT id, with the columns that retention, search and the
\* agents read or write.  A text column is the sequence of its words.
PurgedObservation ==
    [project |-> "", type |-> "", title |-> <<>>, created_at_epoch |-> 0,
     last_accessed_at_epoch |-> 0, deleted_at_epoch |-> NULL, purged |-> TRUE]

PurgedSummary ==
    [project |-> "", request |-> <<>>, learned |-> <<>>, created_at_epoch |-> 0,
     last_accessed_at_epoch |-> 0, deleted_at_epoch |-> NULL, purged |-> TRUE]

storeObservation(obs, project, observation, atEpoch) ==
    Append(obs, [project |-> project, type |-> observation.type,
                 title |-> observation.title, created_at_epoch |-> atEpoch,
                 last_accessed_at_epoch |-> atEpoch, deleted_at_epoch |-> NULL,
                 purged |-> FALSE])

storeSummary(sums, project, summary, atEpoch) ==
    Append(sums, [project |-> project, request |-> summary.request,
                  learned |-> summary.learned, created_at_epoch |-> atEpoch,
                  last_accessed_at_epoch |-> atEpoch, deleted_at_epoch |-> NULL,
                  purged |-> FALSE])

\* ------------------------------------------------------- retention
NoPolicy == [present |-> FALSE]

\* the policy of a project, with the defaults of a project that has no row
getProjectRetentionPolicy(policies, project) ==
    IF ~policies[project].present THEN [enabled |-> TRUE, pinned |-> FALSE, ttlDays |-> NULL]
    ELSE [enabled |-> policies[project].enabled, pinned |-> policies[project].pinned,
          ttlDays |-> policies[project].ttl_days]

\* INSERT ... ON CONFLICT(project) DO UPDATE.  enabled, pinned, ttlDays:
\* <<value>>, or <<>> for a field that is undefined, which keeps its value or
\* gets its default in a new row
upsertRetentionPolicy(policies, project, enabled, pinned, ttlDays) ==
    LET existing == policies[project]
    IN  [policies EXCEPT ![project] =
            [present |-> TRUE,
             enabled |-> IF enabled # <<>> THEN enabled[1]
                         ELSE IF existing.present THEN existing.enabled ELSE TRUE,
             pinned |-> IF pinned # <<>> THEN pinned[1]
                        ELSE IF existing.present THEN existing.pinned ELSE FALSE,
             ttl_days |-> IF ttlDays = <<>>
                          THEN (IF existing.present THEN existing.ttl_days ELSE NULL)
                          ELSE ttlDays[1]]]

\* the project of the session a prompt row belongs to ("": no such session)
PromptProject(sess, row) ==
    LET sid == getSessionByContentSessionId(sess, row.content_session_id)
    IN  IF sid = 0 THEN "" ELSE sess[sid].project

\* the ids of the rows of a project that are not soft-deleted
LiveOf(rows, project) ==
    {i \in DOMAIN rows : /\ ~rows[i].purged
                         /\ rows[i].project = project
                         /\ rows[i].deleted_at_epoch = NULL}

LivePromptsOf(sess, prompts, project) ==
    {i \in DOMAIN prompts : /\ ~prompts[i].purged
                            /\ PromptProject(sess, prompts[i]) = project
                            /\ prompts[i].deleted_at_epoch = NULL}

listRetentionProjects(sess, obs, sums, activity, policies) ==
    ({sess[i].project : i \in DOMAIN sess}
        \cup {obs[i].project : i \in {k \in DOMAIN obs : ~obs[k].purged}}
        \cup {sums[i].project : i \in {k \in DOMAIN sums : ~sums[k].purged}}
        \cup {p \in DOMAIN activity : activity[p] # NULL}
        \cup {p \in DOMAIN policies : policies[p].present}) \ {""}

Max(S) == CHOOSE x \in S : \A y \in S : x >= y

\* MAX over the last accesses of the live rows of the project and its row in
\* project_memory_activity (NULL: there is none of either)
getProjectLastAccessEpoch(sess, obs, sums, prompts, activity, project) ==
    LET vs == {obs[i].last_accessed_at_epoch : i \in LiveOf(obs, project)}
                \cup {sums[i].last_accessed_at_epoch : i \in LiveOf(sums, project)}
                \cup {prompts[i].last_accessed_at_epoch :
                         i \in LivePromptsOf(sess, prompts, project)}
                \cup (IF activity[project] # NULL THEN {activity[project]} ELSE {})
    IN  IF vs = {} THEN NULL ELSE Max(vs)

\* a loop that looks at the expiry only
RetentionDetail_ExpiryOnly(sess, obs, sums, prompts, activity, policies, project, atEpoch, defaultTtlDays) ==
    LET policy == getProjectRetentionPolicy(policies, project)
        ttlDays == IF policy.ttlDays # NULL /\ policy.ttlDays > 0 THEN policy.ttlDays
                   ELSE defaultTtlDays
        lastAccessEpoch == getProjectLastAccessEpoch(sess, obs, sums, prompts, activity, project)
        expired == lastAccessEpoch = NULL \/ atEpoch - lastAccessEpoch >= ttlDays
        skippedReason == IF ~expired THEN "not_expired" ELSE "none"
    IN  [skippedReason |-> skippedReason,
         softDeleteCandidate |-> skippedReason = "none",
         counts |-> [observations |-> Cardinality(LiveOf(obs, project)),
                     summaries |-> Cardinality(LiveOf(sums, project)),
                     prompts |-> Cardinality(LivePromptsOf(sess, prompts, project))]]

\* a loop that lets a project live one day longer than its ttl
RetentionDetail_LateExpiry(sess, obs, sums, prompts, activity, policies, project, atEpoch, defaultTtlDays) ==
    LET policy == getProjectRetentionPolicy(policies, project)
        ttlDays == IF policy.ttlDays # NULL /\ policy.ttlDays > 0 THEN policy.ttlDays
                   ELSE defaultTtlDays
        lastAccessEpoch == getProjectLastAccessEpoch(sess, obs, sums, prompts, activity, project)
        expired == lastAccessEpoch = NULL \/ atEpoch - lastAccessEpoch > ttlDays
        skippedReason == IF policy.pinned THEN "pinned"
                         ELSE IF ~policy.enabled THEN "disabled"
                         ELSE IF ~expired THEN "not_expired" ELSE "none"
    IN  [skippedReason |-> skippedReason,
         softDeleteCandidate |-> skippedReason = "none",
         counts |-> [observations |-> Cardinality(LiveOf(obs, project)),
                     summaries |-> Cardinality(LiveOf(sums, project)),
                     prompts |-> Cardinality(LivePromptsOf(sess, prompts, project))]]

\* what the loop over the projects decides for one project
RetentionDetail(sess, obs, sums, prompts, activity, policies, project, atEpoch, defaultTtlDays) ==
    LET policy == getProjectRetentionPolicy(policies, project)
        ttlDays == IF policy.ttlDays # NULL /\ policy.ttlDays > 0 THEN policy.ttlDays
                   ELSE defaultTtlDays
        lastAccessEpoch == getProjectLastAccessEpoch(sess, obs, sums, prompts, activity, project)
        expired == lastAccessEpoch = NULL \/ atEpoch - lastAccessEpoch >= ttlDays
        skippedReason == IF policy.pinned THEN "pinned"
                         ELSE IF ~policy.enabled THEN "disabled"
                         ELSE IF ~expired THEN "not_expired" ELSE "none"
    IN  [skippedReason |-> skippedReason,
         softDeleteCandidate |-> skippedReason = "none",
         counts |-> [observations |-> Cardinality(LiveOf(obs, project)),
                     summaries |-> Cardinality(LiveOf(sums, project)),
                     prompts |-> Cardinality(LivePromptsOf(sess, prompts, project))]]

\* a cutoff that forgets the grace period
hardDeleteCutoff_Now(atEpoch, softDeleteDays) == atEpoch

\* nowEpoch - softDeleteDays * DAY_MS (the clock counts days)
hardDeleteCutoff(atEpoch, softDeleteDays) == atEpoch - softDeleteDays

\* options: [dryRun, defaultTtlDays, softDeleteDays]; atEpoch: Date.now().
\* Returns the three tables after the run and the report.
runRetentionCleanup(options, atEpoch, sess, obs, sums, prompts, activity, policies) ==
    LET defaultTtlDays == IF options.defaultTtlDays < 1 THEN 1 ELSE options.defaultTtlDays
        softDeleteDays == IF options.softDeleteDays < 1 THEN 1 ELSE options.softDeleteDays
        projects == listRetentionProjects(sess, obs, sums, activity, policies)
        details == [p \in projects |->
                       RetentionDetail(sess, obs, sums, prompts, activity, policies, p,
                                       atEpoch, defaultTtlDays)]
        soft == {p \in projects : details[p].softDeleteCandidate}
        Stamp(rows, ids) ==
            [i \in DOMAIN rows |->
                IF i \in ids THEN [rows[i] EXCEPT !.deleted_at_epoch = atEpoch] ELSE rows[i]]
        obs1 == IF options.dryRun THEN obs
                ELSE Stamp(obs, UNION {LiveOf(obs, p) : p \in soft})
        sums1 == IF options.dryRun THEN sums
                 ELSE Stamp(sums, UNION {LiveOf(sums, p) : p \in soft})
        prompts1 == IF options.dryRun THEN prompts
                    ELSE Stamp(prompts, UNION {LivePromptsOf(sess, prompts, p) : p \in soft})
        cutoff == hardDeleteCutoff(atEpoch, softDeleteDays)
        Hard(rows) == {i \in DOMAIN rows : /\ ~rows[i].purged
                                           /\ rows[i].deleted_at_epoch # NULL
                                           /\ rows[i].deleted_at_epoch <= cutoff}
        Delete(rows, tomb) ==
            IF options.dryRun THEN rows
            ELSE [i \in DOMAIN rows |-> IF i \in Hard(rows) THEN tomb ELSE rows[i]]
        Sum(f) == LET RECURSIVE Add(_)
                      Add(S) == IF S = {} THEN 0
                                ELSE LET p == CHOOSE x \in S : TRUE
                                     IN  f[p] + Add(S \ {p})
                  IN  Add(soft)
    IN  [observations |-> Delete(obs1, PurgedObservation),
         session_summaries |-> Delete(sums1, PurgedSummary),
         user_prompts |-> Delete(prompts1, PurgedPrompt),
         report |-> [dryRun |-> options.dryRun,
                     scannedProjects |-> Cardinality(projects),
                     skippedPinned |-> Cardinality({p \in projects :
                                                      details[p].skippedReason = "pinned"}),
                     skippedDisabled |-> Cardinality({p \in projects :
                                                        details[p].skippedReason = "disabled"}),
                     softDeleted |-> [projects |-> Cardinality(soft),
                                      observations |-> Sum([p \in soft |-> details[p].counts.observations]),
                                      summaries |-> Sum([p \in soft |-> details[p].counts.summaries]),
                                      prompts |-> Sum([p \in soft |-> details[p].counts.prompts])],
                     hardDeleted |-> [observations |-> Cardinality(Hard(obs1)),
                                      summaries |-> Cardinality(Hard(sums1)),
                                      prompts |-> Cardinality(Hard(prompts1))],
                     details |-> details]]

\* The tables after the first k statements of a run that writes: the loop over
\* the projects (order: the order in which listRetentionProjects lists the
\* ones to soft-delete) runs three UPDATEs per project, on observations,
\* session_summaries and user_prompts, and the three DELETEs of the hard
\* delete follow, on user_prompts, session_summaries and observations.  No
\* transaction spans them: a process that dies after the k-th has committed
\* the first k.
runRetentionCleanupInterrupted(options, atEpoch, sess, obs, sums, prompts, activity, policies, order, k) ==
    LET softDeleteDays == IF options.softDeleteDays < 1 THEN 1 ELSE options.softDeleteDays
        n == Len(order)
        Stamp(rows, ids) ==
            [i \in DOMAIN rows |->
                IF i \in ids THEN [rows[i] EXCEPT !.deleted_at_epoch = atEpoch] ELSE rows[i]]
        obs1 == Stamp(obs, UNION {LiveOf(obs, order[j]) :
                                     j \in {x \in 1..n : 3 * (x - 1) + 1 <= k}})
        sums1 == Stamp(sums, UNION {LiveOf(sums, order[j]) :
                                       j \in {x \in 1..n : 3 * (x - 1) + 2 <= k}})
        prompts1 == Stamp(prompts, UNION {LivePromptsOf(sess, prompts, order[j]) :
                                             j \in {x \in 1..n : 3 * x <= k}})
        cutoff == hardDeleteCutoff(atEpoch, softDeleteDays)
        Hard(rows) == {i \in DOMAIN rows : /\ ~rows[i].purged
                                           /\ rows[i].deleted_at_epoch # NULL
                                           /\ rows[i].deleted_at_epoch <= cutoff}
        Delete(rows, tomb, at) ==
            IF k < at THEN rows
            ELSE [i \in DOMAIN rows |-> IF i \in Hard(rows) THEN tomb ELSE rows[i]]
    IN  [observations |-> Delete(obs1, PurgedObservation, 3 * n + 3),
         session_summaries |-> Delete(sums1, PurgedSummary, 3 * n + 2),
         user_prompts |-> Delete(prompts1, PurgedPrompt, 3 * n + 1)]

\* ------------------------------------------------------- search
\* A request of GET /api/search is a record: query ("": none), limit, project
\* ("": none), kinds (the kinds its type tokens name; {}: none named, all
\* included), obsTypes, dateStartEpoch and dateEndEpoch (NULL: none), and
\* whether the sqlite and the chroma vector back end are enabled and configured.
\* offset is 0 and orderBy is left out.
includes(req, kind) == req.kinds = {} \/ kind \in req.kinds

\* text LIKE %q%, at the granularity of words
Like(text, q) == \E k \in DOMAIN text : text[k] = q

\* the columns a query text is matched against
SearchText(kind, row) ==
    IF kind = "observations" THEN row.title
    ELSE IF kind = "sessions" THEN row.request \o row.learned
    ELSE row.prompt_text

\* a row as a query returns it: its id and a copy of its columns
Hit(rows, i) == [id |-> i, row |-> rows[i]]

\* the WHERE clause that store.search and the ...ByIds queries share
MatchesFilters(sess, kind, row, options) ==
    /\ ~row.purged
    /\ row.deleted_at_epoch = NULL
    /\ options.project # "" =>
          (IF kind = "prompts" THEN PromptProject(sess, row) ELSE row.project)
              = options.project
    /\ (kind = "observations" /\ options.obsTypes # {}) => row.type \in options.obsTypes
    /\ options.dateStartEpoch # NULL => row.created_at_epoch >= options.dateStartEpoch
    /\ options.dateEndEpoch # NULL => row.created_at_epoch <= options.dateEndEpoch

\* ORDER BY created_at_epoch DESC: the orders of the ids that the key allows
OrderedByDateDesc(rows, ids) ==
    {sq \in OrdersOf(ids) :
        \A a, b \in DOMAIN sq :
            a < b => rows[sq[a]].created_at_epoch >= rows[sq[b]].created_at_epoch}

\* ORDER BY created_at_epoch ASC
OrderedByDateAsc(rows, ids) ==
    {sq \in OrdersOf(ids) :
        \A a, b \in DOMAIN sq :
            a < b => rows[sq[a]].created_at_epoch <= rows[sq[b]].created_at_epoch}

\* LIMIT n
Take(sq, n) == SubSeq(sq, 1, IF Len(sq) < n THEN Len(sq) ELSE n)

\* the rows of the ids, in their order
HitsOf(rows, sq) == [k \in DOMAIN sq |-> Hit(rows, sq[k])]

\* store.search for one kind: the results the query may give
searchKind(sess, rows, kind, args) ==
    IF ~includes(args, kind) THEN {<<>>}
    ELSE LET ids == {i \in DOMAIN rows :
                        /\ MatchesFilters(sess, kind, rows[i], args)
                        /\ args.query # "" => Like(SearchText(kind, rows[i]), args.query)}
         IN  {HitsOf(rows, Take(sq, args.limit)) : sq \in OrderedByDateDesc(rows, ids)}

\* a hydration by id alone, with none of the filters
getRowsByIds_Unfiltered(sess, rows, kind, ids, options) ==
    IF ids = <<>> THEN {<<>>}
    ELSE LET found == {i \in DOMAIN rows :
                          /\ \E k \in DOMAIN ids : ids[k] = i
                          /\ ~rows[i].purged}
         IN  {HitsOf(rows, Take(sq, IF options.limit < 1 THEN 1 ELSE options.limit)) :
                 sq \in OrderedByDateDesc(rows, found)}

\* getObservationsByIds / getSummariesByIds / getPromptsByIds with orderBy
\* date_desc: the results the query may give
getRowsByIds(sess, rows, kind, ids, options) ==
    IF ids = <<>> THEN {<<>>}
    ELSE LET found == {i \in DOMAIN rows :
                          /\ \E k \in DOMAIN ids : ids[k] = i
                          /\ MatchesFilters(sess, kind, rows[i], options)}
         IN  {HitsOf(rows, Take(sq, IF options.limit < 1 THEN 1 ELSE options.limit)) :
                 sq \in OrderedByDateDesc(rows, found)}

getObservationsByIds(sess, obs, ids, options) ==
    getRowsByIds(sess, obs, "observations", ids, options)

getSummariesByIds(sess, sums, ids, options) ==
    getRowsByIds(sess, sums, "sessions", ids, options)

getPromptsByIds(sess, prompts, ids, options) ==
    getRowsByIds(sess, prompts, "prompts", ids, options)

\* the requests of the model
Request(query, limit, project, kinds, obsTypes, dateStartEpoch, sqlite, chroma) ==
    [query |-> query, limit |-> limit, project |-> project, kinds |-> kinds,
     obsTypes |-> obsTypes, dateStartEpoch |-> dateStartEpoch, dateEndEpoch |-> NULL,
     sqlite |-> sqlite, chroma |-> chroma]
SearchRequests ==
    {Request("", 2, "", {}, {}, NULL, TRUE, TRUE),
     Request("note", 2, "", {}, {}, NULL, FALSE, FALSE),
     Request("note", 2, "", {}, {}, NULL, TRUE, TRUE),
     Request("note", 1, "p", {}, {}, NULL, FALSE, TRUE),
     Request("note", 2, "", {"observations"}, {"change"}, 1, FALSE, TRUE),
     Request("note", 2, "", {"prompts"}, {}, NULL, TRUE, TRUE)}
\* the manual saves of SpecSearch
Saves == {[project |-> "p", text |-> <<"note">>], [project |-> "q", text |-> <<"note">>],
          [project |-> "p", text |-> <<"fix">>]}

\* the loop of mergeRowsWithPriority over [...priorityRows, ...lexicalRows]
RECURSIVE mergeLoop(_, _, _)
mergeLoop(rest, merged, limit) ==
    IF rest = <<>> \/ Len(merged) >= limit THEN merged
    ELSE IF \E k \in DOMAIN merged : merged[k].id = Head(rest).id
         THEN mergeLoop(Tail(rest), merged, limit)
         ELSE mergeLoop(Tail(rest), Append(merged, Head(rest)), limit)

mergeRowsWithPriority(priorityRows, lexicalRows, limit) ==
    mergeLoop(priorityRows \o lexicalRows, <<>>, limit)

\* What the vector sources do for one query, as pairs <<sqlite, chroma>>.
\* The sqlite source: the embedding call gives null (timed out, gave up) or a
\* vector, and then the ids of the scored observations, best first.  The
\* chroma source: the collection cannot be initialised, the embedding is null,
\* the query throws, or it answers with the ids of its hits per kind, nearest
\* first (its index may hold ids of rows that are gone by now).
NoIds == [observations |-> <<>>, summaries |-> <<>>, prompts |-> <<>>]
Semantic(state, ids) == [state |-> state, ids |-> ids]
Chroma(state, observationIds, promptIds) ==
    [state |-> state,
     ids |-> [observations |-> observationIds, summaries |-> <<>>, prompts |-> promptIds]]
VectorOutcomes ==
    {<<Semantic("embedding_null", <<>>), Chroma("init_failed", <<>>, <<>>)>>,
     <<Semantic("embedding_null", <<>>), Chroma("embedding_null", <<>>, <<>>)>>,
     <<Semantic("embedding_null", <<>>), Chroma("query_throws", <<>>, <<>>)>>,
     <<Semantic("ok", <<>>), Chroma("ok", <<>>, <<>>)>>,
     <<Semantic("ok", <<1, 2>>), Chroma("query_throws", <<>>, <<>>)>>,
     <<Semantic("ok", <<2, 1>>), Chroma("ok", <<>>, <<>>)>>,
     <<Semantic("ok", <<1, 2>>), Chroma("ok", <<2, 1>>, <<>>)>>,
     <<Semantic("embedding_null", <<>>), Chroma("ok", <<2, 1>>, <<>>)>>,
     <<Semantic("embedding_null", <<>>), Chroma("ok", <<>>, <<1>>)>>}
NotAsked == [state |-> "not_asked", ids |-> NoIds]

\* SemanticSearchService.findObservationIds: the best-scored of the embedded
\* observations of the project (outcome.ids: the ranking the scores give).  The
\* rows are read before the chroma source is awaited, so one of them may be
\* soft-deleted by the time the ids are hydrated.
findObservationIds(obs, outcome, project, limit) ==
    IF outcome.state # "ok" THEN <<>>
    ELSE LET Embedded(i) == /\ i \in DOMAIN obs
                            /\ ~obs[i].purged
                            /\ project # "" => obs[i].project = project
         IN  Take(SelectSeq(outcome.ids, Embedded), limit)

\* ChromaSearchService.queryIds
queryIds(outcome, limit) ==
    IF outcome.state # "ok" THEN NoIds
    ELSE [observations |-> Take(outcome.ids.observations, limit),
          summaries |-> Take(outcome.ids.summaries, limit),
          prompts |-> Take(outcome.ids.prompts, limit)]

\* the ids of the hits of a result
IdsOf(hits) == {hits[k].id : k \in DOMAIN hits}

\* store.touchMemoryAccess: the tables and the activity after it
\* a touch that records nothing
touchMemoryAccess_Untouched(sess, obs, sums, prompts, activity, observationIds, summaryIds, promptIds, projects, atEpoch) ==
    [observations |-> obs, session_summaries |-> sums, user_prompts |-> prompts,
     project_memory_activity |-> activity]

touchMemoryAccess(sess, obs, sums, prompts, activity, observationIds, summaryIds, promptIds, projects, atEpoch) ==
    LET Touch(rows, ids) ==
            [i \in DOMAIN rows |->
                IF i \in ids /\ ~rows[i].purged /\ rows[i].deleted_at_epoch = NULL
                THEN [rows[i] EXCEPT !.last_accessed_at_epoch = atEpoch] ELSE rows[i]]
        Present(rows, ids) == {i \in ids : i \in DOMAIN rows /\ ~rows[i].purged}
        touchedProjects ==
            (projects
                \cup {obs[i].project : i \in Present(obs, observationIds)}
                \cup {sums[i].project : i \in Present(sums, summaryIds)}
                \cup {PromptProject(sess, prompts[i]) : i \in Present(prompts, promptIds)})
              \ {""}
    IN  [observations |-> Touch(obs, observationIds),
         session_summaries |-> Touch(sums, summaryIds),
         user_prompts |-> Touch(prompts, promptIds),
         project_memory_activity |-> touchProjectActivity(activity, touchedProjects, atEpoch)]

\* ------------------------------------------------------- the agents
\* What the chat collaborator does for one message: whether a key is
\* configured, whether something inside the agent's try block throws, and the
\* texts its successive chatJson calls return ("null": the call gave up after
\* its retries or timed out, "invalid": JSON that fails the schema).
ChatOk == [configured |-> TRUE, throws |-> FALSE, texts |-> <<"valid">>]
ChatCases ==
    {[configured |-> FALSE, throws |-> FALSE, texts |-> <<>>],
     [configured |-> TRUE, throws |-> TRUE, texts |-> <<>>],
     [configured |-> TRUE, throws |-> FALSE, texts |-> <<"null">>],
     [configured |-> TRUE, throws |-> FALSE, texts |-> <<"invalid", "null">>],
     [configured |-> TRUE, throws |-> FALSE, texts |-> <<"invalid", "invalid">>],
     [configured |-> TRUE, throws |-> FALSE, texts |-> <<"invalid", "valid">>],
     ChatOk}
MaxRepairs == 1      \* CODEXMEM_OPENAI_MAX_REPAIRS

\* the tool_name / last_assistant_message column of a queue row (the first part
\* the route hashes into the key after the session and the prompt number)
PayloadOf(row) == IF row.dedupe_key = NoKey THEN "" ELSE row.dedupe_key[2][3]

\* processWithRepair: TRUE if the loop ends with validated data, FALSE if it
\* returns null; texts[1] is the initial text, the rest what repairJson returns
RECURSIVE processWithRepair(_, _, _)
processWithRepair(texts, attempts, maxRepairs) ==
    IF Head(texts) = "valid" THEN TRUE
    ELSE IF attempts >= maxRepairs THEN FALSE
    ELSE IF Len(texts) < 2 \/ texts[2] = "null" THEN FALSE
    ELSE processWithRepair(Tail(texts), attempts + 1, maxRepairs)

\* whether OpenAIAgent returns what the model wrote (otherwise it returns what
\* RuleBasedAgent makes of the message)
ModelResultUsed(chat) ==
    /\ chat.configured
    /\ ~chat.throws
    /\ chat.texts # <<>> /\ Head(chat.texts) # "null"
    /\ processWithRepair(chat.texts, 0, MaxRepairs)

\* toolName.toLowerCase().includes(part), for the tool names of the model
ToolNameIncludes(toolName, part) ==
    toolName \in (CASE part = "edit" -> {"Edit", "MultiEdit", "NotebookEdit"}
                    [] part = "write" -> {"Write"}
                    [] part = "patch" -> {"apply_patch"}
                    [] part = "bash" -> {"Bash"}
                    [] OTHER -> {})

\* RuleBasedAgent.processObservation
RuleBasedObservation(tool_name) ==
    LET toolName == IF tool_name = "" THEN "Unknown" ELSE tool_name
    IN  [type |-> IF \/ ToolNameIncludes(toolName, "edit")
                     \/ ToolNameIncludes(toolName, "write")
                     \/ ToolNameIncludes(toolName, "patch")
                  THEN "change"
                  ELSE IF ToolNameIncludes(toolName, "bash") THEN "execution"
                  ELSE "discovery",
         title |-> <<toolName, "operation">>]

\* RuleBasedAgent.processSummary
RuleBasedSummary(last_assistant_message) ==
    [request |-> <<"Session", "summary">>,
     learned |-> IF last_assistant_message = ""
                 THEN <<"No", "assistant", "message", "available.">>
                 ELSE <<last_assistant_message>>]

\* what the model writes when its output passes the schema
ModelObservation == [type |-> "change", title |-> <<"model", "title">>]
ModelSummary == [request |-> <<"model", "request">>, learned |-> <<"model", "learned">>]

\* an agent that hands on what the model wrote whenever it wrote anything
processObservation_Unvalidated(message, chat) ==
    IF chat.configured /\ chat.texts # <<>> /\ Head(chat.texts) # "null"
    THEN ModelObservation ELSE RuleBasedObservation(PayloadOf(message))

\* OpenAIAgent.processObservation
processObservation(message, chat) ==
    IF ModelResultUsed(chat) THEN ModelObservation
    ELSE RuleBasedObservation(PayloadOf(message))

\* OpenAIAgent.processSummary
processSummary(message, chat) ==
    IF ModelResultUsed(chat) THEN ModelSummary
    ELSE RuleBasedSummary(PayloadOf(message))

\* ------------------------------------------------------- the drain loop
\* processSessionQueue from the head of its loop, run to the point where it
\* awaits the agent for a claimed message, or returns; when it returns, the
\* calling handler goes on to the next session of its list (todo), if any.
\* (Its branch for a message whose session row is missing cannot be taken:
\* session rows are never deleted.  Its back-fill of memory_session_id cannot
\* fire either: a session with queued messages got its id in the enqueue handler.)
RECURSIVE processSessionQueue(_, _, _, _, _)
processSessionQueue(q, sid, seen, todo, ret) ==
    LET c == claimNextPending(q, sid)
    IN  IF c.msg = 0 \/ c.msg \in seen
        THEN IF todo = <<>>
             THEN [pm |-> c.pm, pc |-> "idle", sid |-> 0, msg |-> 0, seen |-> {},
                   todo |-> <<>>, returned |-> ret \cup {sid}]
             ELSE processSessionQueue(c.pm, Head(todo), {}, Tail(todo), ret \cup {sid})
        ELSE [pm |-> c.pm, pc |-> "agent", sid |-> sid, msg |-> c.msg,
              seen |-> seen \cup {c.msg}, todo |-> todo, returned |-> ret]

\* for (const sid of sessions) await processSessionQueue(sid)
DrainSessions(q, sessions) ==
    IF sessions = <<>>
    THEN [pm |-> q, pc |-> "idle", sid |-> 0, msg |-> 0, seen |-> {}, todo |-> <<>>,
          returned |-> {}]
    ELSE processSessionQueue(q, Head(sessions), {}, Tail(sessions), {})

\* The state a handler leaves behind after the run r of its drain loop.
\* others: the other open handlers; fin: the session /api/sessions/end removes
\* from activeSessions once its drain is over (0: none).  A handler that is
\* left awaiting the agent stays open; MaxDrains bounds how many are.
Resume(others, r, fin, active) ==
    /\ pending_messages' = r.pm
    /\ IF r.pc = "idle"
       THEN drains' = others
       ELSE /\ BagCardinality(others) < MaxDrains
            /\ drains' = others (+) SetToBag({[pc |-> r.pc, sid |-> r.sid, msg |-> r.msg,
                                               seen |-> r.seen, todo |-> r.todo,
                                               fin |-> fin]})
    /\ returned' = r.returned
    /\ activeSessions' = IF r.pc = "idle" /\ fin # 0 THEN active \ {fin} ELSE active
    /\ phase' = IF r.pc = "idle" THEN "ready" ELSE phase

\* ---------------------------------------------------------------- Init
Init ==
    /\ phase = "ready"
    /\ crashes = 0
    /\ sdk_sessions = <<>>
    /\ user_prompts = <<>>
    /\ pending_messages = <<>>
    /\ processed_message_dedupe = {}
    /\ activeSessions = {}
    /\ drains = EmptyBag
    /\ lastEnqueue = NoEnqueue
    /\ returned = {}
    /\ reply = NoReply
    /\ lastPrivate = [c \in AllContentSessions |-> FALSE]
    /\ maxIssued = [c \in AllContentSessions |-> 0]
    /\ now = 0
    /\ observations = <<>>
    /\ session_summaries = <<>>
    /\ project_retention_policies = [p \in AllProjects |-> NoPolicy]
    /\ project_memory_activity = [p \in AllProjects |-> NULL]
    /\ searches = {}
    /\ lastTouched = [p \in AllProjects |-> NULL]
    /\ file = <<>>
    /\ offset = 0
    /\ handed = <<>>

\* ---------------------------------------------------------------- handlers
\* POST /api/sessions/init
InitSession(cs, project, prompt) ==
    /\ UNCHANGED bridgevars
    /\ phase = "ready"
    /\ LET sess == createSDKSession(sdk_sessions, cs, project)
           activity == createSDKSessionActivity(project_memory_activity, sdk_sessions, cs,
                                                project, now)
           sessionDbId == getSessionByContentSessionId(sess, cs)
           promptNumber == getPromptNumberFromUserPrompts(user_prompts, cs) + 1
           cleanedPrompt == stripMemoryTagsFromPrompt(prompt)
       IN  /\ sdk_sessions' = sess
           /\ activeSessions' = activeSessions \cup {sessionDbId}
           /\ IF cleanedPrompt = <<>>
              THEN /\ project_memory_activity' = activity
                   /\ UNCHANGED <<user_prompts, maxIssued, lastTouched>>
              ELSE /\ user_prompts' = saveUserPrompt(user_prompts, cs, promptNumber,
                                                     cleanedPrompt, now)
                   /\ lastTouched' = Accessed(lastTouched, {sess[sessionDbId].project} \ {""},
                                              now)
                   /\ project_memory_activity' =
                         touchProjectActivity(activity, {sess[sessionDbId].project}, now)
                   /\ maxIssued' = [maxIssued EXCEPT
                                       ![cs] = IF promptNumber > @ THEN promptNumber ELSE @]
           /\ reply' = [route |-> "init", cs |-> cs, prompt |-> prompt,
                        sessionDbId |-> sessionDbId, promptNumber |-> promptNumber,
                        skipped |-> (cleanedPrompt = <<>>)]
           /\ lastPrivate' = [lastPrivate EXCEPT ![cs] = (cleanedPrompt = <<>>)]
    /\ lastEnqueue' = NoEnqueue
    /\ returned' = {}
    /\ UNCHANGED <<phase, crashes, pending_messages, processed_message_dedupe, drains>>
    /\ UNCHANGED <<now, observations, session_summaries, project_retention_policies,
                   searches>>

\* What POST /api/sessions/observations and POST /api/sessions/summarize share
\* from ensureSessionForProcessing on; parts: what the route hashes into the key
PostMessage(cs, kind, parts) ==
    /\ UNCHANGED bridgevars
    /\ phase = "ready"
    /\ LET sess == ensureSessionForProcessing(sdk_sessions, cs)
           sid == getSessionByContentSessionId(sess, cs)
           promptNumber == getPromptNumberFromUserPrompts(user_prompts, cs)
           prompt == getUserPrompt(user_prompts, cs, promptNumber)
           dedupeKey == toStableHash(<<cs, promptNumber>> \o parts)
           e == enqueue(pending_messages, processed_message_dedupe, sid, kind, dedupeKey)
       IN  /\ sdk_sessions' = sess
           /\ project_memory_activity' =
                 createSDKSessionActivity(project_memory_activity, sdk_sessions, cs,
                                          "unknown", now)
           /\ IF \A text \in prompt : text = <<>>
              THEN \* no prompt row of that number, or an empty one: skipped, reason private
                   /\ activeSessions' = activeSessions \cup {sid}
                   /\ lastEnqueue' = NoEnqueue
                   /\ returned' = {}
                   /\ UNCHANGED <<pending_messages, processed_message_dedupe, drains, phase>>
              ELSE /\ Len(e.pm) <= MaxItems
                   /\ processed_message_dedupe' = e.dedupe
                   /\ lastEnqueue' = [called |-> TRUE, sid |-> sid, kind |-> kind,
                                      key |-> dedupeKey, id |-> e.id, deduped |-> e.deduped]
                   /\ Resume(drains, processSessionQueue(e.pm, sid, {}, <<>>, {}), 0,
                             activeSessions \cup {sid})
    /\ reply' = NoReply
    /\ UNCHANGED <<crashes, user_prompts, lastPrivate, maxIssued>>
    /\ UNCHANGED <<now, observations, session_summaries, project_retention_policies,
                   searches, lastTouched>>

\* the worker process dies while the handler of PostMessage is inside its
\* enqueue call; what the handler did before (ensureSessionForProcessing) is
\* committed.  The reply records where the process died.
CrashInEnqueue(cs, kind, parts) ==
    /\ UNCHANGED bridgevars
    /\ phase = "ready"
    /\ crashes < MaxCrashes
    /\ LET sess == ensureSessionForProcessing(sdk_sessions, cs)
           sid == getSessionByContentSessionId(sess, cs)
           promptNumber == getPromptNumberFromUserPrompts(user_prompts, cs)
           prompt == getUserPrompt(user_prompts, cs, promptNumber)
           dedupeKey == toStableHash(<<cs, promptNumber>> \o parts)
           e == enqueueInterrupted(pending_messages, processed_message_dedupe, sid, kind,
                                   dedupeKey)
       IN  /\ ~(\A text \in prompt : text = <<>>)
           /\ sdk_sessions' = sess
           /\ project_memory_activity' =
                 createSDKSessionActivity(project_memory_activity, sdk_sessions, cs,
                                          "unknown", now)
           /\ pending_messages' = e.pm
           /\ processed_message_dedupe' = e.dedupe
           /\ reply' = [route |-> "crash", sid |-> sid, kind |-> kind, key |-> dedupeKey]
    /\ crashes' = crashes + 1
    /\ phase' = "down"
    /\ drains' = EmptyBag
    /\ activeSessions' = {}
    /\ searches' = {}
    /\ lastEnqueue' = NoEnqueue
    /\ returned' = {}
    /\ UNCHANGED <<user_prompts, lastPrivate, maxIssued>>
    /\ UNCHANGED <<now, observations, session_summaries, project_retention_policies,
                   lastTouched>>

\* POST /api/sessions/observations (tool_input and tool_response after tag stripping)
PostObservation(cs, ev) ==
    PostMessage(cs, "observation", <<ev.tool_name, ev.tool_input, ev.tool_response, ev.cwd>>)

\* POST /api/sessions/summarize
PostSummarize(cs, last_assistant_message) ==
    PostMessage(cs, "summarize", <<last_assistant_message>>)

\* POST /api/sessions/end (a session without a row: skipped, nothing changes)
EndSession(cs, cleanup, staleMs) ==
    /\ UNCHANGED bridgevars
    /\ phase = "ready"
    /\ LET session == getSessionByContentSessionId(sdk_sessions, cs)
       IN  /\ session # 0
           /\ IF cleanup
              THEN Resume(drains,
                          processSessionQueue(resetStaleProcessing(pending_messages, staleMs),
                                              session, {}, <<>>, {}),
                          session, activeSessions)
              ELSE /\ activeSessions' = activeSessions \ {session}
                   /\ returned' = {}
                   /\ UNCHANGED <<pending_messages, drains, phase>>
    /\ lastEnqueue' = NoEnqueue
    /\ reply' = NoReply
    /\ UNCHANGED <<crashes, sdk_sessions, user_prompts, processed_message_dedupe,
                   lastPrivate, maxIssued>>
    /\ UNCHANGED memvars

\* POST /api/sessions/complete; wasActive records whether the session was in
\* activeSessions when the call arrived
CompleteSession(cs) ==
    /\ UNCHANGED bridgevars
    /\ phase = "ready"
    /\ LET session == getSessionByContentSessionId(sdk_sessions, cs)
       IN  /\ activeSessions' = activeSessions \ {session}
           /\ reply' = [route |-> "complete", cs |-> cs,
                        status |-> IF session = 0 THEN "skipped" ELSE "completed",
                        wasActive |-> session \in activeSessions]
    /\ lastEnqueue' = NoEnqueue
    /\ returned' = {}
    /\ UNCHANGED <<phase, crashes, sdk_sessions, user_prompts, pending_messages,
                   processed_message_dedupe, drains, lastPrivate, maxIssued>>
    /\ UNCHANGED memvars

\* POST /api/memory/save: the manual session of the project is looked up or
\* created and the text is stored as an observation of the project, without
\* passing through the queue
ManualSave(project, text) ==
    /\ UNCHANGED bridgevars
    /\ phase = "ready"
    /\ sdk_sessions' = getOrCreateManualSession(sdk_sessions, project)
    /\ observations' = storeObservation(observations, project,
                                       [type |-> "discovery", title |-> text], now)
    /\ project_memory_activity' =
          touchProjectActivity(
              createSDKSessionActivity(project_memory_activity, sdk_sessions,
                                       ManualContentSession(project), project, now),
              {project}, now)
    /\ lastTouched' = Accessed(lastTouched, {project}, now)
    /\ lastEnqueue' = NoEnqueue
    /\ returned' = {}
    /\ reply' = NoReply
    /\ UNCHANGED <<phase, crashes, user_prompts, pending_messages,
                   processed_message_dedupe, activeSessions, drains, lastPrivate,
                   maxIssued>>
    /\ UNCHANGED <<now, session_summaries, project_retention_policies, searches>>

\* settings that make every run an execute run
RetentionOptions_Execute(dryRun) ==
    [dryRun |-> FALSE, defaultTtlDays |-> DefaultTtlDays, softDeleteDays |-> SoftDeleteDays]

\* the settings readRetentionSettings hands to runRetentionCleanup
RetentionOptions(dryRun) ==
    [dryRun |-> dryRun, defaultTtlDays |-> DefaultTtlDays, softDeleteDays |-> SoftDeleteDays]

\* POST /api/ops/retention/cleanup; dryRun: the dryRun of the body is not false
RetentionCleanup(dryRun) ==
    /\ UNCHANGED bridgevars
    /\ phase = "ready"
    /\ LET r == runRetentionCleanup(RetentionOptions(dryRun), now, sdk_sessions,
                                    observations, session_summaries, user_prompts,
                                    project_memory_activity, project_retention_policies)
       IN  /\ observations' = r.observations
           /\ session_summaries' = r.session_summaries
           /\ user_prompts' = r.user_prompts
           /\ reply' = [route |-> "cleanup", dryRun |-> dryRun, report |-> r.report]
    /\ lastEnqueue' = NoEnqueue
    /\ returned' = {}
    /\ UNCHANGED <<phase, crashes, sdk_sessions, pending_messages,
                   processed_message_dedupe, activeSessions, drains, lastPrivate,
                   maxIssued>>
    /\ UNCHANGED <<now, project_retention_policies, project_memory_activity, lastTouched, searches>>

\* runRetentionSweep(false): the sweep of the interval timer and of bootstrap
\* (CODEXMEM_RETENTION_ENABLED is on); the reply is what it logs
RetentionSweep ==
    /\ UNCHANGED bridgevars
    /\ phase = "ready"
    /\ LET r == runRetentionCleanup(RetentionOptions(FALSE), now, sdk_sessions,
                                    observations, session_summaries, user_prompts,
                                    project_memory_activity, project_retention_policies)
       IN  /\ observations' = r.observations
           /\ session_summaries' = r.session_summaries
           /\ user_prompts' = r.user_prompts
           /\ reply' = [route |-> "sweep",
                        scannedProjects |-> r.report.scannedProjects,
                        softDeletedProjects |-> r.report.softDeleted.projects,
                        softDeletedObservations |-> r.report.softDeleted.observations,
                        hardDeletedObservations |-> r.report.hardDeleted.observations]
    /\ lastEnqueue' = NoEnqueue
    /\ returned' = {}
    /\ UNCHANGED <<phase, crashes, sdk_sessions, pending_messages,
                   processed_message_dedupe, activeSessions, drains, lastPrivate,
                   maxIssued>>
    /\ UNCHANGED <<now, project_retention_policies, project_memory_activity, lastTouched, searches>>

\* the worker process dies inside runRetentionSweep(false), after the k-th
\* write statement of runRetentionCleanup and before its last.  The reply
\* records where the process died.
RetentionSweepCrash(order, k) ==
    /\ UNCHANGED bridgevars
    /\ phase = "ready"
    /\ crashes < MaxCrashes
    /\ LET projects == listRetentionProjects(sdk_sessions, observations, session_summaries,
                                             project_memory_activity,
                                             project_retention_policies)
           soft == {project \in projects :
                       RetentionDetail(sdk_sessions, observations, session_summaries,
                                       user_prompts, project_memory_activity,
                                       project_retention_policies, project, now,
                                       DefaultTtlDays).softDeleteCandidate}
           r == runRetentionCleanupInterrupted(RetentionOptions(FALSE), now, sdk_sessions,
                                               observations, session_summaries, user_prompts,
                                               project_memory_activity,
                                               project_retention_policies, order, k)
       IN  /\ order \in OrdersOf(soft)
           /\ k \in 1..(3 * Len(order) + 2)
           /\ observations' = r.observations
           /\ session_summaries' = r.session_summaries
           /\ user_prompts' = r.user_prompts
    /\ reply' = [route |-> "sweep-crash", statements |-> k]
    /\ crashes' = crashes + 1
    /\ phase' = "down"
    /\ drains' = EmptyBag
    /\ activeSessions' = {}
    /\ searches' = {}
    /\ lastEnqueue' = NoEnqueue
    /\ returned' = {}
    /\ UNCHANGED <<sdk_sessions, pending_messages, processed_message_dedupe, lastPrivate,
                   maxIssued>>
    /\ UNCHANGED <<now, project_retention_policies, project_memory_activity, lastTouched>>

\* POST /api/ops/retention/policies; enabled, pinned, ttlDays: the fields of
\* the body (<<>>: left out).  The route hands the store `ttlDays ?? null`.
UpsertPolicy(project, enabled, pinned, ttlDays) ==
    /\ UNCHANGED bridgevars
    /\ phase = "ready"
    /\ project_retention_policies' =
          upsertRetentionPolicy(project_retention_policies, project, enabled, pinned,
                                <<IF ttlDays = <<>> THEN NULL ELSE ttlDays[1]>>)
    /\ reply' = NoReply
    /\ lastEnqueue' = NoEnqueue
    /\ returned' = {}
    /\ UNCHANGED <<phase, crashes, sdk_sessions, user_prompts, pending_messages,
                   processed_message_dedupe, activeSessions, drains, lastPrivate,
                   maxIssued>>
    /\ UNCHANGED <<now, observations, session_summaries, project_memory_activity, lastTouched,
                   searches>>

\* the ids that the vector sources contribute to a request, per kind
VectorIds(req, semanticIds, chromaIds) ==
    [observations |->
        (IF includes(req, "observations") /\ req.sqlite THEN semanticIds ELSE <<>>)
          \o (IF req.chroma /\ includes(req, "observations")
              THEN chromaIds.observations ELSE <<>>),
     summaries |-> IF req.chroma /\ includes(req, "sessions")
                   THEN chromaIds.summaries ELSE <<>>,
     prompts |-> IF req.chroma /\ includes(req, "prompts")
                 THEN chromaIds.prompts ELSE <<>>]

\* a mode that looks at the observation ids only
searchMode_ObservationsOnly(vectorObservationIds, vectorSummaryIds, vectorPromptIds) ==
    IF vectorObservationIds # <<>> THEN "hybrid" ELSE "lexical-only"

\* the searchMode of a response
searchMode(vectorObservationIds, vectorSummaryIds, vectorPromptIds) ==
    IF \/ vectorObservationIds # <<>>
       \/ vectorSummaryIds # <<>>
       \/ vectorPromptIds # <<>>
    THEN "hybrid" ELSE "lexical-only"

\* the part of GET /api/search after its awaits: hydration of the vector ids,
\* the merge, the touch of what is returned, and the response (with what the
\* trace and the log hold: the vector ids, what each source did)
SearchRespond(req, lexical, vectorObservationIds, vectorSummaryIds, vectorPromptIds, sources) ==
    \E ho \in getObservationsByIds(sdk_sessions, observations, vectorObservationIds, req),
       hs \in getSummariesByIds(sdk_sessions, session_summaries, vectorSummaryIds, req),
       hp \in getPromptsByIds(sdk_sessions, user_prompts, vectorPromptIds, req) :
        LET obsOut == IF vectorObservationIds # <<>>
                      THEN mergeRowsWithPriority(ho, lexical.observations, req.limit)
                      ELSE lexical.observations
            sumOut == IF vectorSummaryIds # <<>>
                      THEN mergeRowsWithPriority(hs, lexical.sessions, req.limit)
                      ELSE lexical.sessions
            prOut == IF vectorPromptIds # <<>>
                     THEN mergeRowsWithPriority(hp, lexical.prompts, req.limit)
                     ELSE lexical.prompts
            t == touchMemoryAccess(sdk_sessions, observations, session_summaries,
                                   user_prompts, project_memory_activity, IdsOf(obsOut),
                                   IdsOf(sumOut), IdsOf(prOut),
                                   IF req.project = "" THEN {} ELSE {req.project}, now)
        IN  /\ observations' = t.observations
            /\ session_summaries' = t.session_summaries
            /\ user_prompts' = t.user_prompts
            /\ project_memory_activity' = t.project_memory_activity
            /\ lastTouched' =
                  Accessed(lastTouched,
                           ({obsOut[k].row.project : k \in DOMAIN obsOut}
                              \cup {sumOut[k].row.project : k \in DOMAIN sumOut}
                              \cup {PromptProject(sdk_sessions, prOut[k].row) :
                                       k \in DOMAIN prOut}) \ {""},
                           now)
            /\ reply' = [route |-> "search", status |-> 200, req |-> req,
                         searchMode |-> searchMode(vectorObservationIds, vectorSummaryIds,
                                                   vectorPromptIds),
                         observations |-> obsOut,
                         sessions |-> sumOut, prompts |-> prOut, lexical |-> lexical,
                         vectorObservationIds |-> vectorObservationIds,
                         vectorSummaryIds |-> vectorSummaryIds,
                         vectorPromptIds |-> vectorPromptIds, sources |-> sources]

\* whether the handler has a vector source to await
AwaitsVectors(req) ==
    /\ req.query # ""
    /\ (includes(req, "observations") /\ req.sqlite) \/ req.chroma

\* GET /api/search up to its first await: the lexical search; a request that
\* has no vector source to ask is answered at once
SearchStart(req) ==
    /\ UNCHANGED bridgevars
    /\ phase = "ready"
    /\ \E lo \in searchKind(sdk_sessions, observations, "observations", req),
          ls \in searchKind(sdk_sessions, session_summaries, "sessions", req),
          lp \in searchKind(sdk_sessions, user_prompts, "prompts", req) :
           LET lexical == [observations |-> lo, sessions |-> ls, prompts |-> lp]
           IN  IF AwaitsVectors(req)
               THEN /\ Cardinality(searches) < MaxSearches
                    /\ searches' = searches \cup {[req |-> req, lexical |-> lexical]}
                    /\ reply' = NoReply
                    /\ UNCHANGED <<observations, session_summaries, user_prompts,
                                   project_memory_activity, lastTouched>>
               ELSE /\ SearchRespond(req, lexical, <<>>, <<>>, <<>>,
                                      [semantic |-> "not_asked", chroma |-> "not_asked"])
                    /\ UNCHANGED searches
    /\ lastEnqueue' = NoEnqueue
    /\ returned' = {}
    /\ UNCHANGED <<phase, crashes, sdk_sessions, pending_messages,
                   processed_message_dedupe, activeSessions, drains, lastPrivate,
                   maxIssued, now, project_retention_policies>>

\* a handler that lets the failure of a vector source through: the request
\* fails with a 500 and returns nothing
SearchDone_FailsOnError(s, semantic, chroma) ==
    /\ UNCHANGED bridgevars
    /\ s \in searches
    /\ LET req == s.req
           ids == VectorIds(req,
                            findObservationIds(observations, semantic, req.project, req.limit),
                            queryIds(chroma, req.limit))
           sources == [semantic |-> semantic.state, chroma |-> chroma.state]
       IN  IF semantic.state \notin {"ok", "not_asked"} \/ chroma.state \notin {"ok", "not_asked"}
           THEN /\ reply' = [route |-> "search", status |-> 500, req |-> req,
                             searchMode |-> "lexical-only", observations |-> <<>>,
                             sessions |-> <<>>, prompts |-> <<>>, lexical |-> s.lexical,
                             vectorObservationIds |-> <<>>, vectorSummaryIds |-> <<>>,
                             vectorPromptIds |-> <<>>, sources |-> sources]
                /\ UNCHANGED <<observations, session_summaries, user_prompts,
                               project_memory_activity, lastTouched>>
           ELSE SearchRespond(req, s.lexical, ids.observations, ids.summaries,
                              ids.prompts, sources)
    /\ searches' = searches \ {s}
    /\ lastEnqueue' = NoEnqueue
    /\ returned' = {}
    /\ UNCHANGED <<phase, crashes, sdk_sessions, pending_messages,
                   processed_message_dedupe, activeSessions, drains, lastPrivate,
                   maxIssued, now, project_retention_policies>>

\* the vector sources of a search have answered (semantic, chroma: what each
\* did; NotAsked for a source the request does not ask)
SearchDone(s, semantic, chroma) ==
    /\ UNCHANGED bridgevars
    /\ s \in searches
    /\ LET req == s.req
           ids == VectorIds(req,
                            findObservationIds(observations, semantic, req.project, req.limit),
                            queryIds(chroma, req.limit))
       IN  SearchRespond(req, s.lexical, ids.observations, ids.summaries, ids.prompts,
                         [semantic |-> semantic.state, chroma |-> chroma.state])
    /\ searches' = searches \ {s}
    /\ lastEnqueue' = NoEnqueue
    /\ returned' = {}
    /\ UNCHANGED <<phase, crashes, sdk_sessions, pending_messages,
                   processed_message_dedupe, activeSessions, drains, lastPrivate,
                   maxIssued, now, project_retention_policies>>

\* GET /api/timeline with an anchor id (project "": none; depths: the default 3)
Timeline(anchor, project) ==
    /\ UNCHANGED bridgevars
    /\ phase = "ready"
    /\ IF anchor \notin DOMAIN observations
          \/ observations[anchor].purged
          \/ observations[anchor].deleted_at_epoch # NULL
       THEN /\ reply' = [route |-> "timeline", found |-> FALSE, anchor |-> anchor,
                         items |-> <<>>]
            /\ UNCHANGED <<observations, project_memory_activity, lastTouched>>
       ELSE LET anchorRow == observations[anchor]
                InProject(i) == ~observations[i].purged
                                   /\ (project # "" => observations[i].project = project)
                beforeIds == {i \in DOMAIN observations :
                                 /\ InProject(i)
                                 /\ observations[i].created_at_epoch < anchorRow.created_at_epoch}
                afterIds == {i \in DOMAIN observations :
                                /\ InProject(i)
                                /\ observations[i].created_at_epoch > anchorRow.created_at_epoch}
            IN  \E b \in OrderedByDateDesc(observations, beforeIds),
                   a \in OrderedByDateAsc(observations, afterIds) :
                    LET before == Take(b, TimelineDepth)
                        after == Take(a, TimelineDepth)
                        items == [k \in DOMAIN before |->
                                     Hit(observations, before[Len(before) + 1 - k])]
                                   \o <<Hit(observations, anchor)>>
                                   \o HitsOf(observations, after)
                        t == touchMemoryAccess(sdk_sessions, observations, session_summaries,
                                               user_prompts, project_memory_activity,
                                               IdsOf(items), {}, {},
                                               IF project # "" THEN {project}
                                               ELSE {anchorRow.project} \ {""}, now)
                    IN  /\ observations' = t.observations
                        /\ project_memory_activity' = t.project_memory_activity
                        /\ lastTouched' =
                              Accessed(lastTouched,
                                       {items[k].row.project : k \in DOMAIN items} \ {""},
                                       now)
                        /\ reply' = [route |-> "timeline", found |-> TRUE,
                                     anchor |-> anchor, items |-> items]
    /\ lastEnqueue' = NoEnqueue
    /\ returned' = {}
    /\ UNCHANGED <<phase, crashes, sdk_sessions, user_prompts, pending_messages,
                   processed_message_dedupe, activeSessions, drains, lastPrivate,
                   maxIssued, now, session_summaries, project_retention_policies,
                   searches>>

\* POST /api/pending-queue/process; sessionDbId = 0: no session id in the body
ProcessQueue(sessionDbId, resetStale, staleMs) ==
    /\ UNCHANGED bridgevars
    /\ phase = "ready"
    /\ LET q == IF resetStale THEN resetStaleProcessing(pending_messages, staleMs)
                ELSE pending_messages
       IN  \E sessions \in (IF sessionDbId # 0 THEN {<<sessionDbId>>}
                            ELSE OrdersOf(getSessionsWithPendingMessages(q))) :
               Resume(drains, DrainSessions(q, sessions), 0, activeSessions)
    /\ lastEnqueue' = NoEnqueue
    /\ reply' = NoReply
    /\ UNCHANGED <<lastPrivate, maxIssued>>
    /\ UNCHANGED memvars
    /\ UNCHANGED <<crashes, sdk_sessions, user_prompts, processed_message_dedupe>>

\* POST /api/ops/retry-failed
RetryFailed(sessionDbId) ==
    /\ UNCHANGED bridgevars
    /\ phase = "ready"
    /\ LET q == retryFailed(pending_messages, sessionDbId)
       IN  IF retryFailedChanges(pending_messages, sessionDbId) > 0
           THEN \E sessions \in (IF sessionDbId # 0 THEN {<<sessionDbId>>}
                                 ELSE OrdersOf(getSessionsWithPendingMessages(q))) :
                    Resume(drains, DrainSessions(q, sessions), 0, activeSessions)
           ELSE /\ returned' = {}
                /\ UNCHANGED <<pending_messages, drains, activeSessions, phase>>
    /\ lastEnqueue' = NoEnqueue
    /\ reply' = NoReply
    /\ UNCHANGED <<lastPrivate, maxIssued>>
    /\ UNCHANGED memvars
    /\ UNCHANGED <<crashes, sdk_sessions, user_prompts, processed_message_dedupe>>

\* ------------------------------------------------- the steps of a drain
Others(dr) == drains (-) SetToBag({dr})

\* a drain step that confirms the message as soon as the agent returns and
\* writes the result afterwards
AgentDone_ConfirmFirst(dr, index, chat) ==
    /\ UNCHANGED bridgevars
    /\ dr.pc = "agent"
    /\ pending_messages' = confirmProcessed(pending_messages, dr.msg)
    /\ drains' = Others(dr) (+) SetToBag({[dr EXCEPT !.pc = "index"]})
    /\ returned' = {}
    /\ lastEnqueue' = NoEnqueue
    /\ reply' = NoReply
    /\ UNCHANGED <<lastPrivate, maxIssued>>
    /\ UNCHANGED memvars
    /\ UNCHANGED <<phase, crashes, sdk_sessions, user_prompts, processed_message_dedupe,
                   activeSessions>>

\* the agent returned and storeObservation / storeSummary succeeded; index:
\* a vector backend is enabled, so the loop awaits the indexing call before
\* it confirms
AgentDone(dr, index, chat) ==
    /\ UNCHANGED bridgevars
    /\ dr.pc = "agent"
    /\ LET message == pending_messages[dr.msg]
           session == sdk_sessions[message.session_db_id]
           project == IF session.project = "" THEN "unknown" ELSE session.project
       IN  /\ IF message.message_type = "observation"
              THEN /\ observations' = storeObservation(observations, project,
                                                      processObservation(message, chat), now)
                   /\ UNCHANGED session_summaries
              ELSE /\ session_summaries' = storeSummary(session_summaries, project,
                                                       processSummary(message, chat), now)
                   /\ UNCHANGED observations
           /\ project_memory_activity' =
                 touchProjectActivity(project_memory_activity, {project}, now)
           /\ lastTouched' = Accessed(lastTouched, {project}, now)
    /\ LET q == storeResult(pending_messages, dr.msg)
       IN  IF index
           THEN /\ pending_messages' = q
                /\ drains' = Others(dr) (+) SetToBag({[dr EXCEPT !.pc = "index"]})
                /\ returned' = {}
                /\ UNCHANGED <<activeSessions, phase>>
           ELSE Resume(Others(dr),
                       processSessionQueue(confirmProcessed(q, dr.msg), dr.sid, dr.seen,
                                           dr.todo, {}),
                       dr.fin, activeSessions)
    /\ lastEnqueue' = NoEnqueue
    /\ reply' = IF ModelResultUsed(chat) THEN NoReply
                 ELSE [route |-> "agent", msg |-> dr.msg, chat |-> chat]
    /\ UNCHANGED <<lastPrivate, maxIssued>>
    /\ UNCHANGED <<now, project_retention_policies, searches>>
    /\ UNCHANGED <<crashes, sdk_sessions, user_prompts, processed_message_dedupe>>

\* the indexing call came back; raised: it threw, which the try/catch around
\* it catches and logs (the reply is that warning) before the loop goes on to
\* confirmProcessed
IndexDone(dr, raised) ==
    /\ UNCHANGED bridgevars
    /\ dr.pc = "index"
    /\ Resume(Others(dr),
              processSessionQueue(confirmProcessed(pending_messages, dr.msg), dr.sid,
                                  dr.seen, dr.todo, {}),
              dr.fin, activeSessions)
    /\ lastEnqueue' = NoEnqueue
    /\ reply' = IF raised THEN [route |-> "index", msg |-> dr.msg] ELSE NoReply
    /\ UNCHANGED <<lastPrivate, maxIssued>>
    /\ UNCHANGED memvars
    /\ UNCHANGED <<crashes, sdk_sessions, user_prompts, processed_message_dedupe>>

\* the agent or the store write threw: the catch block of the loop
AgentFail(dr) ==
    /\ UNCHANGED bridgevars
    /\ dr.pc = "agent"
    /\ Resume(Others(dr),
              processSessionQueue(markFailed(pending_messages, dr.msg), dr.sid,
                                  dr.seen, dr.todo, {}),
              dr.fin, activeSessions)
    /\ lastEnqueue' = NoEnqueue
    /\ reply' = NoReply
    /\ UNCHANGED <<lastPrivate, maxIssued>>
    /\ UNCHANGED memvars
    /\ UNCHANGED <<crashes, sdk_sessions, user_prompts, processed_message_dedupe>>

\* ------------------------------------------------- the process and the clock
\* the worker process dies: the database stays, the open handlers (drains,
\* searches) and activeSessions are gone
Crash ==
    /\ UNCHANGED bridgevars
    /\ phase # "down"
    /\ crashes < MaxCrashes
    /\ crashes' = crashes + 1
    /\ phase' = "down"
    /\ drains' = EmptyBag
    /\ activeSessions' = {}
    /\ searches' = {}
    /\ lastEnqueue' = NoEnqueue
    /\ reply' = NoReply
    /\ UNCHANGED <<lastPrivate, maxIssued>>
    /\ UNCHANGED <<now, observations, session_summaries, project_retention_policies,
                   project_memory_activity, lastTouched>>
    /\ returned' = {}
    /\ UNCHANGED <<sdk_sessions, user_prompts, pending_messages, processed_message_dedupe>>

\* bootstrap() of the restarted worker: runs before the server listens
Bootstrap(autoRecoverOnBoot, staleMs) ==
    /\ UNCHANGED bridgevars
    /\ phase = "down"
    /\ IF autoRecoverOnBoot
       THEN LET q == resetStaleProcessing(pending_messages, staleMs)
            IN  \E sessions \in OrdersOf(getSessionsWithPendingMessages(q)) :
                    LET r == DrainSessions(q, sessions)
                    IN  /\ pending_messages' = r.pm
                        /\ drains' = IF r.pc = "idle" THEN EmptyBag
                                     ELSE SetToBag({[pc |-> r.pc, sid |-> r.sid, msg |-> r.msg,
                                                     seen |-> r.seen, todo |-> r.todo,
                                                     fin |-> 0]})
                        /\ returned' = r.returned
                        /\ phase' = IF r.pc = "idle" THEN "ready" ELSE "boot"
       ELSE /\ phase' = "ready"
            /\ returned' = {}
            /\ UNCHANGED <<pending_messages, drains>>
    /\ lastEnqueue' = NoEnqueue
    /\ reply' = NoReply
    /\ UNCHANGED <<lastPrivate, maxIssued>>
    /\ UNCHANGED memvars
    /\ UNCHANGED <<crashes, sdk_sessions, user_prompts, processed_message_dedupe,
                   activeSessions>>

\* 2 ms pass: every claim gets 2 ms older (ages beyond MaxAge are not told apart)
Tick ==
    /\ UNCHANGED bridgevars
    /\ \E i \in DOMAIN pending_messages :
          pending_messages[i].age # NULL /\ pending_messages[i].age < MaxAge
    /\ pending_messages' =
          [i \in DOMAIN pending_messages |->
              IF pending_messages[i].age = NULL THEN pending_messages[i]
              ELSE [pending_messages[i] EXCEPT
                       !.age = IF @ + 2 > MaxAge THEN MaxAge ELSE @ + 2]]
    /\ lastEnqueue' = NoEnqueue
    /\ reply' = NoReply
    /\ UNCHANGED <<lastPrivate, maxIssued>>
    /\ UNCHANGED memvars
    /\ returned' = {}
    /\ UNCHANGED <<phase, crashes, sdk_sessions, user_prompts,
                   processed_message_dedupe, activeSessions, drains>>

\* a day passes
Day ==
    /\ UNCHANGED bridgevars
    /\ now < MaxDay
    /\ now' = now + 1
    /\ reply' = NoReply
    /\ lastEnqueue' = NoEnqueue
    /\ returned' = {}
    /\ UNCHANGED <<phase, crashes, sdk_sessions, user_prompts, pending_messages,
                   processed_message_dedupe, activeSessions, drains, lastPrivate,
                   maxIssued>>
    /\ UNCHANGED <<observations, session_summaries, project_retention_policies,
                   project_memory_activity, lastTouched, searches>>

\* ------------------------------------------------- the Codex bridge
\* The session file is a sequence of bytes; "\n" ends a line.  The lines that
\* the Codex CLI writes, each a JSON document of two bytes:
SessionLines == <<<<"a", "A">>, <<"b", "B">>, <<"c", "C">>>>

\* the bytes of the file once every line is written
SessionFileBytes ==
    LET RECURSIVE Join(_)
        Join(k) == IF k = 0 THEN <<>> ELSE Join(k - 1) \o SessionLines[k] \o <<"\n">>
    IN  Join(Len(SessionLines))

\* chunk.split("\n")
RECURSIVE SplitAtNewlines(_)
SplitAtNewlines(chunk) ==
    LET nl == {k \in DOMAIN chunk : chunk[k] = "\n"}
    IN  IF nl = {} THEN <<chunk>>
        ELSE <<SubSeq(chunk, 1, Min(nl) - 1)>>
                \o SplitAtNewlines(SubSeq(chunk, Min(nl) + 1, Len(chunk)))

\* processFile: the bytes from the stored offset to the size of the file are
\* read, split at the newlines, every piece that is not blank is passed to
\* processLine, and the offset becomes the size
processFile(bytes, prevOffset) ==
    LET size == Len(bytes)
        start == IF prevOffset > size THEN 0 ELSE prevOffset
        len == size - start
        chunk == SubSeq(bytes, start + 1, size)
    IN  IF len <= 0 THEN [offset |-> start, lines |-> <<>>]
        ELSE [offset |-> size,
              lines |-> SelectSeq(SplitAtNewlines(chunk), LAMBDA x : x # <<>>)]

\* the Codex CLI appends the next n bytes to the session file
SessionFileAppend(n) ==
    /\ Len(file) + n <= Len(SessionFileBytes)
    /\ file' = SubSeq(SessionFileBytes, 1, Len(file) + n)
    /\ UNCHANGED <<offset, handed>>
    /\ UNCHANGED workervars

\* tick of the running bridge: processFile on the session file
BridgeTick ==
    /\ LET r == processFile(file, offset)
       IN  /\ offset' = r.offset
           /\ handed' = handed \o r.lines
    /\ UNCHANGED file
    /\ UNCHANGED workervars

\* ---------------------------------------------------------- specifications
\* the requests that open and end sessions and drain the queue, in sessions
\* whose prompts are visible
Requests ==
    \/ \E cs \in ContentSessions, prompt \in VisiblePrompts :
          /\ getPromptNumberFromUserPrompts(user_prompts, cs) < MaxPrompts
          /\ \E project \in Projects : InitSession(cs, project, prompt)
    \/ \E cs \in ContentSessions, cleanup \in BOOLEAN, ms \in StaleMsValues :
          EndSession(cs, cleanup, ms)
    \/ \E sid \in SessionDbIdInputs, rs \in BOOLEAN, ms \in StaleMsValues :
          ProcessQueue(sid, rs, ms)
    \/ \E sid \in SessionDbIdInputs : RetryFailed(sid)

\* Spec: a worker that stays up and serves every route, with no embedding
\* provider configured: the indexing call returns without awaiting any I/O.
\* The hooks send the init request of a session before its first tool event.
Next ==
    \/ Requests
    \/ \E cs \in ContentSessions, ev \in ToolEvents :
          /\ getSessionByContentSessionId(sdk_sessions, cs) # 0
          /\ PostObservation(cs, ev)
    \/ \E cs \in ContentSessions, m \in AssistantMessages :
          /\ getSessionByContentSessionId(sdk_sessions, cs) # 0
          /\ PostSummarize(cs, m)
    \/ \E dr \in BagToSet(drains) : AgentDone(dr, FALSE, ChatOk)
    \/ \E dr \in BagToSet(drains) : AgentFail(dr)
    \/ Tick

Spec == Init /\ [][Next]_vars

\* SpecCrash: a worker that may crash and restart and may await the indexing
\* call, in sessions that send no summarize request
NextCrash ==
    \/ Requests
    \/ \E cs \in ContentSessions, ev \in ToolEvents : PostObservation(cs, ev)
    \/ \E dr \in BagToSet(drains), index \in BOOLEAN : AgentDone(dr, index, ChatOk)
    \/ \E dr \in BagToSet(drains), raised \in BOOLEAN : IndexDone(dr, raised)
    \/ \E dr \in BagToSet(drains) : AgentFail(dr)
    \/ Tick
    \/ Crash
    \/ \E cs \in ContentSessions, ev \in ToolEvents :
          CrashInEnqueue(cs, "observation",
                         <<ev.tool_name, ev.tool_input, ev.tool_response, ev.cwd>>)
    \/ \E ar \in BOOLEAN, ms \in StaleMsValues : Bootstrap(ar, ms)

SpecCrash == Init /\ [][NextCrash]_vars

\* SpecSessions: the session routes (init, complete, manual save) and the
\* observation route with an agent that succeeds, all within one day
NextSessions ==
    \/ \E cs \in ContentSessions, prompt \in Prompts :
          /\ Len(user_prompts) < MaxSessionPrompts
          /\ \E project \in Projects : InitSession(cs, project, prompt)
    \/ \E cs \in AllContentSessions, ev \in ToolEvents :
          /\ Len(pending_messages) < MaxSessionItems
          /\ PostObservation(cs, ev)
    \/ \E cs \in ContentSessions : CompleteSession(cs)
    \/ \E project \in Projects :
          /\ Len(observations) < MaxSessionItems
          /\ ManualSave(project, <<"note">>)
    \/ \E dr \in BagToSet(drains) : AgentDone(dr, FALSE, ChatOk)

SpecSessions == Init /\ [][NextSessions]_vars

\* SpecRetention: observations, summaries and prompts of two projects are
\* written over the days, policies are set, and retention runs, by request and
\* by the timer
NextRetention ==
    \/ Day
    \/ \E project \in RetentionProjects :
          /\ Len(observations) + Len(pending_messages) < MaxRetentionRows
          /\ ManualSave(project, <<"note">>)
    \/ \E cs \in ContentSessions, prompt \in VisiblePrompts :
          /\ getPromptNumberFromUserPrompts(user_prompts, cs) < MaxPrompts
          /\ \E project \in Projects : InitSession(cs, project, prompt)
    \/ \E project \in PolicyProjects, body \in PolicyBodies :
          UpsertPolicy(project, body.enabled, body.pinned, body.ttlDays)
    \/ \E dryRun \in BOOLEAN : RetentionCleanup(dryRun)
    \/ RetentionSweep
    \/ \E cs \in ContentSessions, m \in AssistantMessages :
          /\ Len(observations) + Len(pending_messages) < MaxRetentionRows
          /\ PostSummarize(cs, m)
    \/ \E dr \in BagToSet(drains) : AgentDone(dr, FALSE, ChatOk)

SpecRetention == Init /\ [][NextRetention]_vars

\* SpecPrompts: a session sends prompts over the days while the retention
\* timer runs
NextPrompts ==
    \/ Day
    \/ \E cs \in ContentSessions, prompt \in VisiblePrompts :
          /\ Len(user_prompts) < MaxSessionPrompts
          /\ \E project \in Projects : InitSession(cs, project, prompt)
    \/ RetentionSweep

SpecPrompts == Init /\ [][NextPrompts]_vars

\* SpecAgent: the queue routes with a chat collaborator that may be missing,
\* time out, give up or write output that fails the schema
NextAgent ==
    \/ \E cs \in ContentSessions, prompt \in VisiblePrompts :
          /\ getPromptNumberFromUserPrompts(user_prompts, cs) < MaxPrompts
          /\ \E project \in Projects : InitSession(cs, project, prompt)
    \/ \E cs \in ContentSessions, ev \in AgentToolEvents : PostObservation(cs, ev)
    \/ \E cs \in ContentSessions, m \in AssistantMessages : PostSummarize(cs, m)
    \/ \E dr \in BagToSet(drains), chat \in ChatCases : AgentDone(dr, FALSE, chat)

SpecAgent == Init /\ [][NextAgent]_vars

\* SpecSearch: memories are saved and retention runs while searches are asked
\* for; the vector back ends answer with ids of their own, or fail
NextSearch ==
    \/ /\ now < MaxSearchDay
       /\ Day
    \/ \E save \in Saves :
          /\ Len(observations) < MaxSearchRows
          /\ ManualSave(save.project, save.text)
    \/ \E cs \in ContentSessions, prompt \in VisiblePrompts :
          /\ getPromptNumberFromUserPrompts(user_prompts, cs) < MaxPrompts
          /\ \E project \in Projects : InitSession(cs, project, prompt)
    \/ RetentionSweep
    \/ \E req \in SearchRequests : SearchStart(req)
    \/ \E s \in searches, vec \in VectorOutcomes :
          SearchDone(s,
                     IF includes(s.req, "observations") /\ s.req.sqlite
                     THEN vec[1] ELSE NotAsked,
                     IF s.req.chroma THEN vec[2] ELSE NotAsked)

SpecSearch == Init /\ [][NextSearch]_vars

\* SpecSweepCrash: a session and manual saves write prompts and observations
\* of two projects over the days while the retention timer runs, and the
\* worker may die inside a sweep
NextSweepCrash ==
    \/ Day
    \/ \E project \in RetentionProjects :
          /\ Len(observations) < MaxSweepRows
          /\ ManualSave(project, <<"note">>)
    \/ \E cs \in ContentSessions, prompt \in VisiblePrompts :
          /\ getPromptNumberFromUserPrompts(user_prompts, cs) < MaxPrompts
          /\ \E project \in Projects : InitSession(cs, project, prompt)
    \/ RetentionSweep
    \/ \E order \in UNION {OrdersOf(S) : S \in SUBSET AllProjects}, k \in 1..MaxStatements :
          RetentionSweepCrash(order, k)

SpecSweepCrash == Init /\ [][NextSweepCrash]_vars

\* SpecLive: a worker that stays up, in a session whose hooks keep posting
\* tool events.  The agent call of an open drain comes back (it returns, or it
\* throws, at the latest on its timeout), the hooks keep sending events, the
\* queue keeps being processed on request, and time passes.  Stale resets can
\* happen; nothing makes them happen.
AgentReturns == \E dr \in BagToSet(drains) : AgentDone(dr, FALSE, ChatOk) \/ AgentFail(dr)

Enqueues ==
    \E cs \in ContentSessions, ev \in ToolEvents :
        /\ getSessionByContentSessionId(sdk_sessions, cs) # 0
        /\ PostObservation(cs, ev)

Drains == \E sid \in SessionDbIdInputs, ms \in StaleMsValues : ProcessQueue(sid, FALSE, ms)

StaleResets == \E sid \in SessionDbIdInputs, ms \in StaleMsValues : ProcessQueue(sid, TRUE, ms)

NextLive ==
    \/ \E cs \in ContentSessions, prompt \in VisiblePrompts :
          /\ getPromptNumberFromUserPrompts(user_prompts, cs) < MaxPrompts
          /\ \E project \in Projects : InitSession(cs, project, prompt)
    \/ Enqueues
    \/ Drains
    \/ StaleResets
    \/ AgentReturns
    \/ Tick

SpecLive ==
    /\ Init
    /\ [][NextLive]_vars
    /\ WF_vars(AgentReturns)
    /\ WF_vars(Enqueues)
    /\ WF_vars(Drains)
    /\ WF_vars(Tick)

\* SpecBridge: the Codex CLI writes a session file while the bridge polls it
NextBridge ==
    \/ \E n \in 1..MaxWrite : SessionFileAppend(n)
    \/ BridgeTick

SpecBridge == Init /\ [][NextBridge]_vars

\* SpecTimeline: memories are saved and retention runs over the days while
\* timelines are asked for
NextTimeline ==
    \/ Day
    \/ \E save \in Saves :
          /\ Len(observations) < MaxSearchRows
          /\ ManualSave(save.project, save.text)
    \/ RetentionSweep
    \/ \E anchor \in 1..MaxSearchRows, project \in {"", "p"} : Timeline(anchor, project)

SpecTimeline == Init /\ [][NextTimeline]_vars

TypeOK ==
    /\ phase \in {"ready", "down", "boot"}
    /\ Len(pending_messages) <= MaxItems
    /\ \A i \in DOMAIN pending_messages :
          /\ pending_messages[i].message_type \in Kinds
          /\ pending_messages[i].status \in {"pending", "processing", "failed", "deleted"}
          /\ pending_messages[i].retry_count \in 0..MAX_RETRY
    /\ BagCardinality(drains) <= MaxDrains
    /\ reply.route \in {"none", "init", "complete", "agent", "cleanup", "sweep",
                       "search", "timeline", "index", "crash", "sweep-crash"}
    /\ \A i \in DOMAIN user_prompts :
          user_prompts[i].purged \/ user_prompts[i].prompt_number >= 1
    /\ now \in 0..MaxDay
    /\ \A dr \in BagToSet(drains) : dr.pc \in {"agent", "index"}

\* ================================================================ claims
Rows == DOMAIN pending_messages
Row(i) == pending_messages[i]
\* the rows ever inserted for a (session, kind, dedupe key), confirmed ones included
RowsOfKey(sid, kind, key) ==
    {i \in Rows : Row(i).session_db_id = sid /\ Row(i).message_type = kind
                  /\ Row(i).dedupe_key = key}
ClaimReturnsPendingOnly ==
    \A sid \in SessionIds :
        LET c == claimNextPending(pending_messages, sid)
        IN  c.msg # 0 => Row(c.msg).status = "pending"

\* C1 (as stated): an item is failed, with retryCount 3, once it has failed
\* three times, and claimNext no longer returns it.
C1_FailedAfterThreeFailures ==
    /\ \A i \in Rows : RowExists(pending_messages, i) /\ Row(i).fails >= 3 =>
            Row(i).status = "failed" /\ Row(i).retry_count = 3
    /\ ClaimReturnsPendingOnly

\* C1 (amended): each of the first three failures returns the item to pending
\* with retryCount 1, 2, 3; the fourth failure finds retryCount = 3 and makes
\* the item failed, retryCount still 3; claimNext never returns a failed item.
C1_FailedAfterFourFailures ==
    /\ \A i \in Rows : RowExists(pending_messages, i) =>
          /\ Row(i).fails <= 3 => Row(i).status # "failed" /\ Row(i).retry_count = Row(i).fails
          /\ Row(i).fails >= 4 => Row(i).status = "failed" /\ Row(i).retry_count = 3
    /\ ClaimReturnsPendingOnly

C1_Witness ==
    \E i \in Rows : /\ Row(i).status = "failed"
                    /\ Row(i).fails = 4
                    /\ Row(i).retry_count = 3
                    /\ claimNextPending(pending_messages, Row(i).session_db_id).msg = 0

\* C2: no payload of a session ever has more than one stored observation /
\* summary (each payload has one queue row, so: no row has two stored results).
C2_AtMostOneStoredResult ==
    \A i \in Rows : Row(i).stored <= 1

\* C3 (as stated): a deduped enqueue returns the id the first enqueue of that
\* key returned, also when that row has been consumed.
C3_DedupedSameReferenceId ==
    (lastEnqueue.called /\ lastEnqueue.deduped) =>
        lastEnqueue.id \in RowsOfKey(lastEnqueue.sid, lastEnqueue.kind, lastEnqueue.key)

\* C3 (amended): exactly one row was ever inserted for the key; the first call
\* returns its id with deduped = false; a deduped call returns that id while
\* the row is still in the queue and 0 once the row has been consumed.
C3_DedupedReferenceIdWhileQueued ==
    lastEnqueue.called =>
        LET first == RowsOfKey(lastEnqueue.sid, lastEnqueue.kind, lastEnqueue.key)
        IN  /\ Cardinality(first) = 1
            /\ \A f \in first :
                  IF lastEnqueue.deduped
                  THEN lastEnqueue.id = IF RowExists(pending_messages, f) THEN f ELSE 0
                  ELSE lastEnqueue.id = f /\ f = Len(pending_messages)

C3_Witness ==
    /\ lastEnqueue.called
    /\ lastEnqueue.deduped
    /\ lastEnqueue.id = 0

\* C4: the ledger only grows; every row ever queued, confirmed ones included,
\* has its key in the ledger; an enqueue of a key the ledger already holds
\* reports deduped and inserts no row.
C4_LedgerPermanent ==
    [][/\ processed_message_dedupe \subseteq processed_message_dedupe'
       /\ \A i \in Rows :
             <<Row(i).session_db_id, Row(i).message_type, Row(i).dedupe_key>>
                \in processed_message_dedupe
       /\ (lastEnqueue'.called
           /\ <<lastEnqueue'.sid, lastEnqueue'.kind, lastEnqueue'.key>>
                 \in processed_message_dedupe)
          => (lastEnqueue'.deduped /\ Len(pending_messages') = Len(pending_messages))
      ]_vars

C4_Witness ==
    /\ lastEnqueue.called
    /\ lastEnqueue.deduped
    /\ \E i \in RowsOfKey(lastEnqueue.sid, lastEnqueue.kind, lastEnqueue.key) :
          Row(i).status = "deleted"
    /\ Len(pending_messages) = 1

\* C5: claimNext never returns an item twice unless the item was put back to
\* pending in between: since a row last became pending at most one claimNext
\* call has received it.
C5_ClaimExclusive ==
    \A i \in Rows : Row(i).claims <= 1

\* two drains of one session stand between claim and confirm, each with its own item
C5_Witness ==
    \E d1, d2 \in BagToSet(drains) :
        /\ d1.pc = "agent" /\ d2.pc = "agent"
        /\ d1.sid = d2.sid
        /\ d1.msg # d2.msg
        /\ Row(d1.msg).claims = 1 /\ Row(d2.msg).claims = 1

\* C6: a row removed by confirm has a stored result.
C6_ConfirmAfterStore ==
    \A i \in Rows : Row(i).status = "deleted" => Row(i).stored >= 1

C6_Witness ==
    \E i \in Rows : Row(i).status = "deleted" /\ Row(i).stored = 1 /\ Row(i).resets = 0

\* C7: an item that resetStale returned to pending and that was then processed
\* to the end has exactly one stored result.
C7_StaleResetProcessedOnce ==
    \A i \in Rows : (Row(i).resets >= 1 /\ Row(i).status = "deleted") => Row(i).stored = 1

\* C8: no two drains of one session stand between claim and confirm / fail at
\* the same time.
C8_SingleActiveDrain ==
    \A d1, d2 \in BagToSet(drains) :
        /\ CopiesIn(d1, drains) = 1
        /\ d1 # d2 => d1.sid # d2.sid

\* C9: claimNext returns the oldest pending item of the session, and no result
\* is stored for an item while an older item of its session is pending.
C9_CreationOrder ==
    [][/\ \A sid \in SessionIds :
             LET c == claimNextPending(pending_messages, sid)
             IN  c.msg # 0 =>
                    \A i \in Rows : (Row(i).session_db_id = sid /\ Row(i).status = "pending")
                                        => c.msg <= i
       /\ \A j \in Rows :
             pending_messages'[j].stored > Row(j).stored =>
                \A i \in Rows : (i < j /\ Row(i).session_db_id = Row(j).session_db_id)
                                    => Row(i).status # "pending"
      ]_vars

\* C10: when processSessionQueue returns, no item of its session is pending.
C10_DrainEndsWithNoPending ==
    \A sid \in returned :
        \A i \in Rows : Row(i).session_db_id = sid => Row(i).status # "pending"

\* the thresholds a resetStaleProcessing call is tried with
Thresholds == 1..(MaxAge + 1)

\* C11: retry_count never exceeds MAX_RETRY, and claimNextPending, markFailed
\* and resetStaleProcessing, called in any reachable state with any argument,
\* leave every failed row failed with its retry_count.
C11_RetryCapAndFailedTerminal ==
    /\ \A i \in Rows : Row(i).retry_count <= MAX_RETRY
    /\ \A i \in Rows : Row(i).status = "failed" =>
          LET Same(q) == q[i].status = "failed" /\ q[i].retry_count = Row(i).retry_count
          IN  /\ \A sid \in SessionDbIdInputs : Same(claimNextPending(pending_messages, sid).pm)
              /\ \A j \in Rows : Same(markFailed(pending_messages, j))
              /\ \A ms \in Thresholds : Same(resetStaleProcessing(pending_messages, ms))

\* a failed row whose claim time is older than a threshold, next to a pending row
C11_Witness ==
    \E i, j \in Rows : /\ Row(i).status = "failed"
                       /\ Row(i).retry_count = MAX_RETRY
                       /\ \E ms \in StaleMsValues : Row(i).age > ms
                       /\ Row(j).status = "processing"

\* C12: every return of a claimed item to the queue uses up one retry, so an
\* item is claimed at most MAX_RETRY + 1 times before it is stored or failed:
\* whenever a processing row becomes pending, or is claimed anew, within a step,
\* its retry_count has grown by one.
C12_RequeueConsumesRetryBudget ==
    [][\A i \in Rows :
          (/\ Row(i).status = "processing"
           /\ \/ pending_messages'[i].status = "pending"
              \/ /\ pending_messages'[i].status = "processing"
                 /\ pending_messages'[i].age = 0
                 /\ Row(i).age # 0)
          => pending_messages'[i].retry_count = Row(i).retry_count + 1
      ]_vars

\* C13: resetStaleProcessing, called in any reachable state with any threshold,
\* turns exactly the processing rows claimed longer ago than the threshold into
\* pending rows with no claim time, leaves every other row as it is, and a
\* second call right after it changes nothing.
C13_ResetStaleFrame ==
    \A ms \in Thresholds :
        LET r == resetStaleProcessing(pending_messages, ms)
        IN  /\ DOMAIN r = Rows
            /\ \A i \in Rows :
                  IF Row(i).status = "processing" /\ Row(i).age > ms
                  THEN /\ r[i].status = "pending"
                       /\ r[i].age = NULL
                       /\ r[i].retry_count = Row(i).retry_count
                       /\ r[i].dedupe_key = Row(i).dedupe_key
                       /\ r[i].session_db_id = Row(i).session_db_id
                  ELSE r[i] = Row(i)
            /\ resetStaleProcessing(r, ms) = r

\* a stale claim next to a recent one
C13_Witness ==
    \E i, j \in Rows, ms \in StaleMsValues :
        /\ Row(i).status = "processing" /\ Row(i).age > ms
        /\ Row(j).status = "processing" /\ Row(j).age <= ms

\* ------------------------------------------------ sessions and prompts
PromptRowsOf(prompts, cs) ==
    {i \in DOMAIN prompts : ~prompts[i].purged /\ prompts[i].content_session_id = cs}

\* C14: at most one row of sdk_sessions exists per contentSessionId, the id of
\* a contentSessionId never changes once it has a row, and every init call
\* answers with that id.
C14_OneSessionPerContentSessionId ==
    [][/\ \A i, j \in DOMAIN sdk_sessions' :
             sdk_sessions'[i].content_session_id = sdk_sessions'[j].content_session_id
                => i = j
       /\ \A cs \in AllContentSessions :
             getSessionByContentSessionId(sdk_sessions, cs) # 0 =>
                getSessionByContentSessionId(sdk_sessions', cs)
                    = getSessionByContentSessionId(sdk_sessions, cs)
       /\ reply'.route = "init" =>
             /\ reply'.sessionDbId \in DOMAIN sdk_sessions'
             /\ sdk_sessions'[reply'.sessionDbId].content_session_id = reply'.cs
      ]_vars

\* an init call answered for a session that already had a row and a prompt
C14_Witness ==
    /\ reply.route = "init"
    /\ reply.promptNumber >= 2
    /\ Len(sdk_sessions) = 1

\* C15 (as stated): an init call that stores its prompt answers promptNumber 1,
\* and the session has exactly one prompt row (all visible prompts of a
\* session are the same prompt here).
C15_DuplicateInitKeepsOnePrompt ==
    (reply.route = "init" /\ ~reply.skipped) =>
        /\ reply.promptNumber = 1
        /\ Cardinality(PromptRowsOf(user_prompts, reply.cs)) = 1

\* C15 (amended): every init call whose cleaned prompt is not empty appends one
\* prompt row, also when the same prompt was stored before; the row's number,
\* which the call answers, is the number of prompt rows the session had (soft-
\* deleted ones included) plus one, so a second identical call answers 2.
C15_EveryInitStoresNextPrompt ==
    [][(reply'.route = "init" /\ ~reply'.skipped) =>
          LET n == Cardinality(PromptRowsOf(user_prompts, reply'.cs))
          IN  /\ reply'.promptNumber = n + 1
              /\ Len(user_prompts') = Len(user_prompts) + 1
              /\ SubSeq(user_prompts', 1, Len(user_prompts)) = user_prompts
              /\ user_prompts'[Len(user_prompts')].content_session_id = reply'.cs
              /\ user_prompts'[Len(user_prompts')].prompt_number = n + 1
              /\ user_prompts'[Len(user_prompts')].deleted_at_epoch = NULL
      ]_vars

\* the second of two init calls with the same prompt: number 2, two equal prompts stored
C15_Witness ==
    /\ reply.route = "init"
    /\ ~reply.skipped
    /\ reply.promptNumber = 2
    /\ \E i, j \in PromptRowsOf(user_prompts, reply.cs) :
          i # j /\ user_prompts[i].prompt_text = user_prompts[j].prompt_text

\* C16: a newly stored prompt gets a number above every number a stored prompt
\* of its session ever got, and no two prompt rows of a session share a number.
C16_PromptNumbersMonotonic ==
    [][(reply'.route = "init" /\ ~reply'.skipped) =>
          /\ reply'.promptNumber > maxIssued[reply'.cs]
          /\ \A i, j \in PromptRowsOf(user_prompts', reply'.cs) :
                user_prompts'[i].prompt_number = user_prompts'[j].prompt_number => i = j
      ]_vars

C18_NothingEnqueuedWhilePrivate ==
    lastEnqueue.called =>
        ~lastPrivate[sdk_sessions[lastEnqueue.sid].content_session_id]

\* C19: a memory_session_id, once assigned, never changes.
C19_MemorySessionIdNeverChanges ==
    [][\A i \in DOMAIN sdk_sessions :
          sdk_sessions[i].memory_session_id # NoMemorySessionId =>
             sdk_sessions'[i].memory_session_id = sdk_sessions[i].memory_session_id
      ]_vars

\* C20: a complete call answers completed when the session was in
\* the active set and skipped when it was not.
C20_RepeatCompleteSkipped ==
    reply.route = "complete" =>
        reply.status = IF reply.wasActive THEN "completed" ELSE "skipped"

\* ------------------------------------------------ the agents' fallback
\* C21: when the agent cannot use the model (no key, a call that timed out or
\* gave up after its retries, output that still fails the schema after the
\* repair), the item completes all the same: what RuleBasedAgent makes of the
\* message is stored as a new row and the queue row is confirmed (deleted),
\* with no failure counted.
C21_FallbackCompletesItem ==
    [][reply'.route = "agent" =>
          LET message == pending_messages[reply'.msg]
              after == pending_messages'[reply'.msg]
          IN  /\ ~ModelResultUsed(reply'.chat)
              /\ message.status = "processing"
              /\ after.status = "deleted"
              /\ after.stored = message.stored + 1
              /\ after.fails = message.fails
              /\ IF message.message_type = "observation"
                 THEN /\ Len(observations') = Len(observations) + 1
                      /\ SubSeq(observations', 1, Len(observations)) = observations
                      /\ LET row == observations'[Len(observations')]
                             rule == RuleBasedObservation(PayloadOf(message))
                         IN  /\ row.type = rule.type
                             /\ row.title = rule.title
                             /\ row.deleted_at_epoch = NULL
                      /\ session_summaries' = session_summaries
                 ELSE /\ Len(session_summaries') = Len(session_summaries) + 1
                      /\ SubSeq(session_summaries', 1, Len(session_summaries))
                            = session_summaries
                      /\ LET row == session_summaries'[Len(session_summaries')]
                             rule == RuleBasedSummary(PayloadOf(message))
                         IN  /\ row.request = rule.request
                             /\ row.learned = rule.learned
                             /\ row.deleted_at_epoch = NULL
                      /\ observations' = observations
      ]_vars

\* an Edit event whose model output failed the schema twice was stored as the
\* rule-based "change" observation, and its queue row is gone
C21_Witness ==
    /\ reply.route = "agent"
    /\ reply.chat.texts = <<"invalid", "invalid">>
    /\ pending_messages[reply.msg].status = "deleted"
    /\ pending_messages[reply.msg].message_type = "observation"
    /\ observations # <<>>
    /\ observations[Len(observations)].type = "change"
    /\ observations[Len(observations)].title = <<"Edit", "operation">>

\* ------------------------------------------------ retention
\* the row of project_retention_policies of a project
StoredPolicy(project) == project_retention_policies[project]
\* the ttl in force for a project: its policy's ttl_days if positive, else the setting
TtlInForce(project) ==
    IF StoredPolicy(project).present /\ StoredPolicy(project).ttl_days > 0
    THEN StoredPolicy(project).ttl_days ELSE DefaultTtlDays
\* a retention run that is allowed to write has just ended
RetentionExecuted ==
    \/ reply'.route = "sweep"
    \/ reply'.route = "cleanup" /\ ~reply'.dryRun

\* C26: no step soft-deletes a live observation, summary or prompt of a
\* project whose policy is pinned or has enabled = false, and the report of a
\* cleanup lists such a project as skipped, with the reason pinned (which takes
\* precedence) or disabled, and not as a soft-delete candidate.
C26_PinnedAndDisabledUntouched ==
    [][\A project \in AllProjects :
          (StoredPolicy(project).present
              /\ (StoredPolicy(project).pinned \/ ~StoredPolicy(project).enabled)) =>
             /\ \A i \in LiveOf(observations, project) :
                   observations'[i].deleted_at_epoch = NULL /\ ~observations'[i].purged
             /\ \A i \in LiveOf(session_summaries, project) :
                   session_summaries'[i].deleted_at_epoch = NULL
                      /\ ~session_summaries'[i].purged
             /\ \A i \in LivePromptsOf(sdk_sessions, user_prompts, project) :
                   user_prompts'[i].deleted_at_epoch = NULL /\ ~user_prompts'[i].purged
             /\ reply'.route = "cleanup" =>
                   /\ project \in DOMAIN reply'.report.details
                   /\ reply'.report.details[project].skippedReason =
                         (IF StoredPolicy(project).pinned THEN "pinned" ELSE "disabled")
                   /\ ~reply'.report.details[project].softDeleteCandidate
                   /\ reply'.report.skippedPinned + reply'.report.skippedDisabled >= 1
      ]_vars

\* an execute run skipped the pinned project p, whose live observation had
\* outlived its ttl, and soft-deleted another project
C26_Witness ==
    /\ reply.route = "cleanup"
    /\ ~reply.dryRun
    /\ reply.report.skippedPinned = 1
    /\ reply.report.softDeleted.projects >= 1
    /\ \E i \in LiveOf(observations, "p") :
          now - observations[i].last_accessed_at_epoch >= TtlInForce("p")
    /\ project_memory_activity["p"] # NULL
    /\ now - project_memory_activity["p"] >= TtlInForce("p")

\* C27: when a retention run that may write ends, every project it scanned
\* that is neither pinned nor disabled and whose last access lies at least its
\* ttl (the policy's ttlDays, else the default) back has deleted_at_epoch set,
\* to the time of the run, on every observation, summary and prompt of it that
\* was live.
C27_ExpiredProjectSoftDeleted ==
    [][RetentionExecuted =>
          \A project \in listRetentionProjects(sdk_sessions, observations, session_summaries,
                                               project_memory_activity,
                                               project_retention_policies) :
             LET lastAccess == getProjectLastAccessEpoch(sdk_sessions, observations,
                                                         session_summaries, user_prompts,
                                                         project_memory_activity, project)
                 exempt == StoredPolicy(project).present
                              /\ (StoredPolicy(project).pinned \/ ~StoredPolicy(project).enabled)
             IN  (~exempt /\ (lastAccess = NULL \/ now - lastAccess >= TtlInForce(project))) =>
                    /\ \A i \in LiveOf(observations, project) :
                          observations'[i].deleted_at_epoch = now
                    /\ \A i \in LiveOf(session_summaries, project) :
                          session_summaries'[i].deleted_at_epoch = now
                    /\ \A i \in LivePromptsOf(sdk_sessions, user_prompts, project) :
                          user_prompts'[i].deleted_at_epoch = now
      ]_vars

\* an execute run on day 2 soft-deleted an observation, a summary and a
\* prompt of project p, whose policy has ttlDays 2
C27_Witness ==
    /\ reply.route = "cleanup"
    /\ ~reply.dryRun
    /\ now = 2
    /\ StoredPolicy("p").present /\ StoredPolicy("p").ttl_days = 2
    /\ \E i \in DOMAIN observations :
          observations[i].project = "p" /\ observations[i].deleted_at_epoch = 2
    /\ \E i \in DOMAIN session_summaries :
          session_summaries[i].project = "p" /\ session_summaries[i].deleted_at_epoch = 2
    /\ \E i \in DOMAIN user_prompts : user_prompts[i].deleted_at_epoch = 2

\* C29: a row leaves its table only if, before the step, it was soft-deleted
\* and its deleted_at_epoch lay at least softDeleteDays back; a live row and a
\* row soft-deleted more recently (in the same run too) stay.
C29_HardDeleteAfterGracePeriod ==
    [][/\ \A i \in DOMAIN observations :
             (observations'[i].purged /\ ~observations[i].purged) =>
                /\ observations[i].deleted_at_epoch # NULL
                /\ now - observations[i].deleted_at_epoch >= SoftDeleteDays
       /\ \A i \in DOMAIN session_summaries :
             (session_summaries'[i].purged /\ ~session_summaries[i].purged) =>
                /\ session_summaries[i].deleted_at_epoch # NULL
                /\ now - session_summaries[i].deleted_at_epoch >= SoftDeleteDays
       /\ \A i \in DOMAIN user_prompts :
             (user_prompts'[i].purged /\ ~user_prompts[i].purged) =>
                /\ user_prompts[i].deleted_at_epoch # NULL
                /\ now - user_prompts[i].deleted_at_epoch >= SoftDeleteDays
      ]_vars

\* a run removed one observation and at the same time soft-deleted
\* another, which is still there
C29_Witness ==
    /\ reply.route \in {"cleanup", "sweep"}
    /\ \E i, j \in DOMAIN observations :
          /\ observations[i].purged
          /\ ~observations[j].purged
          /\ observations[j].deleted_at_epoch = now

\* C30: a cleanup call with dryRun changes no table, and its report counts
\* what the same call without dryRun would soft-delete and hard-delete.
C30_DryRunChangesNothing ==
    [][(reply'.route = "cleanup" /\ reply'.dryRun) =>
          LET exec == runRetentionCleanup(
                          [dryRun |-> FALSE, defaultTtlDays |-> DefaultTtlDays,
                           softDeleteDays |-> SoftDeleteDays],
                          now, sdk_sessions, observations, session_summaries, user_prompts,
                          project_memory_activity, project_retention_policies)
              Stamped(before, after) ==
                  Cardinality({i \in DOMAIN before :
                                  before[i].deleted_at_epoch = NULL
                                     /\ after[i].deleted_at_epoch # NULL})
              Removed(before, after) ==
                  Cardinality({i \in DOMAIN before : ~before[i].purged /\ after[i].purged})
          IN  /\ observations' = observations
              /\ session_summaries' = session_summaries
              /\ user_prompts' = user_prompts
              /\ sdk_sessions' = sdk_sessions
              /\ project_retention_policies' = project_retention_policies
              /\ project_memory_activity' = project_memory_activity
              /\ pending_messages' = pending_messages
              /\ processed_message_dedupe' = processed_message_dedupe
              /\ reply'.report.dryRun
              /\ reply'.report.softDeleted.observations = Stamped(observations, exec.observations)
              /\ reply'.report.softDeleted.summaries
                    = Stamped(session_summaries, exec.session_summaries)
              /\ reply'.report.softDeleted.prompts = Stamped(user_prompts, exec.user_prompts)
              /\ reply'.report.hardDeleted.observations = Removed(observations, exec.observations)
              /\ reply'.report.hardDeleted.summaries
                    = Removed(session_summaries, exec.session_summaries)
              /\ reply'.report.hardDeleted.prompts = Removed(user_prompts, exec.user_prompts)
      ]_vars

\* a dry run reported a soft-delete candidate and a hard-delete candidate
\* that are both still in the table
C30_Witness ==
    /\ reply.route = "cleanup"
    /\ reply.dryRun
    /\ reply.report.softDeleted.observations >= 1
    /\ reply.report.hardDeleted.observations >= 1
    /\ \E i, j \in DOMAIN observations :
          /\ ~observations[i].purged /\ observations[i].deleted_at_epoch = NULL
          /\ ~observations[j].purged /\ observations[j].deleted_at_epoch # NULL

\* ------------------------------------------------ search
\* the ids of a result, in its order
IdSeq(hits) == [k \in DOMAIN hits |-> hits[k].id]

\* the vector ids that pass the filters of the request, in rank order and
\* without repetitions, then the lexical hits not among them, cut at the limit
VectorFirst(rows, kind, vectorIds, lexicalHits, req) ==
    LET Passes(i) == /\ i \in DOMAIN rows
                     /\ MatchesFilters(sdk_sessions, kind, rows[i], req)
        RECURSIVE Walk(_, _)
        Walk(rest, out) ==
            IF rest = <<>> THEN out
            ELSE IF \E k \in DOMAIN out : out[k] = Head(rest)
                 THEN Walk(Tail(rest), out)
                 ELSE Walk(Tail(rest), Append(out, Head(rest)))
    IN  Take(Walk(SelectSeq(vectorIds, Passes) \o IdSeq(lexicalHits), <<>>), req.limit)

\* C22: for each kind, the result of a search is the vector-ranked ids in
\* vector rank order (without repetitions), followed by the lexical results not
\* already included, cut at the requested limit.
C22_VectorRankOrderFirst ==
    reply.route = "search" =>
        /\ IdSeq(reply.observations)
              = VectorFirst(observations, "observations", reply.vectorObservationIds,
                            reply.lexical.observations, reply.req)
        /\ IdSeq(reply.sessions)
              = VectorFirst(session_summaries, "sessions", reply.vectorSummaryIds,
                            reply.lexical.sessions, reply.req)
        /\ IdSeq(reply.prompts)
              = VectorFirst(user_prompts, "prompts", reply.vectorPromptIds,
                            reply.lexical.prompts, reply.req)

C24_HybridIffVectorIds ==
    reply.route = "search" =>
        /\ reply.searchMode = "hybrid" <=>
              \/ reply.vectorObservationIds # <<>>
              \/ reply.vectorSummaryIds # <<>>
              \/ reply.vectorPromptIds # <<>>
        /\ reply.searchMode \in {"hybrid", "lexical-only"}
        /\ reply.searchMode = "hybrid" =>
              \/ reply.sources.semantic = "ok"
              \/ reply.sources.chroma = "ok"
        /\ reply.req.query = "" => reply.searchMode = "lexical-only"

\* a hybrid result whose only vector ids are prompt ids
C24_Witness ==
    /\ reply.route = "search"
    /\ reply.searchMode = "hybrid"
    /\ reply.vectorObservationIds = <<>>
    /\ reply.vectorPromptIds # <<>>

\* C25: a vector source that fails or is unavailable (no embedding, no
\* collection, a query that throws) does not fail the search: the response is a
\* 200 and carries the lexical results, of every kind for which no other source
\* gave ids.
C25_SourceFailureDegrades ==
    (/\ reply.route = "search"
     /\ \/ reply.sources.semantic = "embedding_null"
        \/ reply.sources.chroma \in {"init_failed", "embedding_null", "query_throws"}) =>
        /\ reply.status = 200
        /\ reply.vectorObservationIds = <<>> =>
              reply.observations = reply.lexical.observations
        /\ reply.vectorSummaryIds = <<>> => reply.sessions = reply.lexical.sessions
        /\ reply.vectorPromptIds = <<>> => reply.prompts = reply.lexical.prompts

\* both sources of a request failed and its lexical hits came back
C25_Witness ==
    /\ reply.route = "search"
    /\ reply.sources.semantic = "embedding_null"
    /\ reply.sources.chroma = "query_throws"
    /\ reply.status = 200
    /\ reply.searchMode = "lexical-only"
    /\ reply.lexical.observations # <<>>
    /\ reply.observations = reply.lexical.observations

\* ------------------------------------------------ soft-deleted rows
\* C28: no read path returns a record whose deleted_at_epoch is set: not a
\* search, not a timeline.
C28_DeletedNeverReturned ==
    /\ reply.route = "search" =>
          /\ \A k \in DOMAIN reply.observations :
                reply.observations[k].row.deleted_at_epoch = NULL
          /\ \A k \in DOMAIN reply.sessions :
                reply.sessions[k].row.deleted_at_epoch = NULL
          /\ \A k \in DOMAIN reply.prompts :
                reply.prompts[k].row.deleted_at_epoch = NULL
    /\ reply.route = "timeline" =>
          \A k \in DOMAIN reply.items : reply.items[k].row.deleted_at_epoch = NULL

\* ------------------------------------------------ failed processing
\* C34: an item whose processing failed in a step (markFailed counted a failure
\* of it) and whose drain loop exited in that step is pending or failed after
\* the step, never processing.
C34_FailedItemNotLeftProcessing ==
    [][\A i \in Rows :
          (/\ pending_messages'[i].fails > Row(i).fails
           /\ Row(i).session_db_id \in returned')
              => pending_messages'[i].status \in {"pending", "failed"}
      ]_vars

\* ------------------------------------------------ pinned projects
\* C37: no step removes an observation, a summary or a prompt of a project
\* whose policy, at the time of the step, is pinned or has enabled = false,
\* whether the row is live or soft-deleted.
C37_PinnedNeverHardDeleted ==
    [][\A project \in AllProjects :
          (StoredPolicy(project).present
              /\ (StoredPolicy(project).pinned \/ ~StoredPolicy(project).enabled)) =>
             /\ \A i \in DOMAIN observations :
                   (~observations[i].purged /\ observations[i].project = project)
                       => ~observations'[i].purged
             /\ \A i \in DOMAIN session_summaries :
                   (~session_summaries[i].purged /\ session_summaries[i].project = project)
                       => ~session_summaries'[i].purged
             /\ \A i \in DOMAIN user_prompts :
                   (~user_prompts[i].purged
                       /\ PromptProject(sdk_sessions, user_prompts[i]) = project)
                       => ~user_prompts'[i].purged
      ]_vars

\* ------------------------------------------------ policy updates
\* C38: a policy request for a project that has a policy row leaves every
\* field that its body does not supply as it was: enabled, pinned and the
\* ttl_days override.
C38_PartialUpdateKeepsOtherFields ==
    [][\A project \in PolicyProjects, body \in PolicyBodies :
          (/\ StoredPolicy(project).present
           /\ UpsertPolicy(project, body.enabled, body.pinned, body.ttlDays)) =>
             /\ body.enabled = <<>> =>
                   project_retention_policies'[project].enabled = StoredPolicy(project).enabled
             /\ body.pinned = <<>> =>
                   project_retention_policies'[project].pinned = StoredPolicy(project).pinned
             /\ body.ttlDays = <<>> =>
                   project_retention_policies'[project].ttl_days = StoredPolicy(project).ttl_days
      ]_vars

\* ------------------------------------------------ a step that raises
\* C36: an item whose indexing call raised is not confirmed: its row is still
\* in the queue, with the failure counted by markFailed.
C36_IndexingFailureNotConfirmed ==
    reply.route = "index" =>
        /\ pending_messages[reply.msg].status # "deleted"
        /\ pending_messages[reply.msg].fails >= 1

\* ------------------------------------------------ ledger and queue
\* C40: every (session, kind, key) entry of the ledger has a queue row that
\* was inserted with it (the row may have been confirmed since), also when the
\* process died inside an enqueue call.
C40_LedgerEntryHasQueueItem ==
    \A t \in processed_message_dedupe :
        \E i \in DOMAIN pending_messages :
            /\ pending_messages[i].session_db_id = t[1]
            /\ pending_messages[i].message_type = t[2]
            /\ pending_messages[i].dedupe_key = t[3]

\* the process died inside the enqueue call of a new key: neither the ledger
\* entry nor the queue row is there
C40_Witness ==
    /\ reply.route = "crash"
    /\ phase = "down"
    /\ <<reply.sid, reply.kind, reply.key>> \notin processed_message_dedupe
    /\ \A i \in DOMAIN pending_messages : pending_messages[i].dedupe_key # reply.key

\* ------------------------------------------------ recovery at boot
\* after the step, the drain loop of session sid has run to its end, is open,
\* or is waiting for its turn in the loop over the sessions
DrainedOnBoot(sid) ==
    \/ sid \in returned'
    \/ \E dr \in BagToSet(drains') :
          dr.sid = sid \/ \E k \in DOMAIN dr.todo : dr.todo[k] = sid

\* a drain loop awaits the agent for row i after the step
HeldAfter(i) == \E dr \in BagToSet(drains') : dr.msg = i

C32_RetentionDeletesAtomic ==
    [][/\ \A project \in AllProjects :
             LET o == LiveOf(observations, project)
                 u == LiveOf(session_summaries, project)
                 p == LivePromptsOf(sdk_sessions, user_prompts, project)
                 stampedO == {i \in o : observations'[i].deleted_at_epoch # NULL}
                 stampedU == {i \in u : session_summaries'[i].deleted_at_epoch # NULL}
                 stampedP == {i \in p : user_prompts'[i].deleted_at_epoch # NULL}
             IN  (stampedO \cup stampedU \cup stampedP # {}) =>
                    (stampedO = o /\ stampedU = u /\ stampedP = p)
       /\ LET Due(rows) == {i \in DOMAIN rows :
                               /\ ~rows[i].purged
                               /\ rows[i].deleted_at_epoch # NULL
                               /\ rows[i].deleted_at_epoch <= now - SoftDeleteDays}
              goneO == {i \in Due(observations) : observations'[i].purged}
              goneU == {i \in Due(session_summaries) : session_summaries'[i].purged}
              goneP == {i \in Due(user_prompts) : user_prompts'[i].purged}
          IN  (goneO \cup goneU \cup goneP # {}) =>
                 /\ goneO = Due(observations)
                 /\ goneU = Due(session_summaries)
                 /\ goneP = Due(user_prompts)
      ]_vars

LinesBeforeOffset ==
    {k \in DOMAIN SessionLines :
        \E e \in 1..offset :
           /\ file[e] = "\n"
           /\ Cardinality({j \in 1..e : file[j] = "\n"}) = k}

\* C39: every complete line of the session file that the bridge has read past
\* was passed to processLine exactly once, as a whole.
C39_CompleteLineHandedOnce ==
    \A k \in LinesBeforeOffset :
        Cardinality({h \in DOMAIN handed : handed[h] = SessionLines[k]}) = 1

\* ------------------------------------------------ every item ends
\* C33: every item of the queue eventually has its result stored and is
\* deleted, or becomes failed, while enqueues and drains keep coming.
C33_EveryItemReachesTerminalOutcome ==
    \A i \in 1..MaxItems :
        (i \in DOMAIN pending_messages)
            ~> (i \in DOMAIN pending_messages
                   /\ pending_messages[i].status \in {"deleted", "failed"})

====
